---------------------------- MODULE Spec2Model ----------------------------
(***************************************************************************)
(* Namespace isolation layer over a shared Redis connection.               *)
(*                                                                         *)
(*   createNamespacedRedis / clearNamespace   src/src/demos/redis_demo.ts  *)
(*   RedisWrapper (the shared connection)     src/unnamed/part_008         *)
(*                                                                         *)
(* Strings (namespaces, keys, patterns, channels) are sequences of         *)
(* one-character strings, so that endsWith, startsWith, slice and          *)
(* concatenation are computed as the code computes them.                   *)
(***************************************************************************)
EXTENDS Integers, Sequences, FiniteSets, TLC

(***************************************************************************)
(* Bounds of the model.                                                    *)
(***************************************************************************)
\* number of distinct payloads a caller may write
MaxVal == 2
\* number of cursor pages the store splits its keyspace into for SCAN
NumSlots == 2
\* number of subscribe calls
MaxSubs == 2
\* number of calls in the runs that exercise every operation
MaxCalls == 2
\* longest namespace string of the runs over all namespace strings
MaxNsLen == 2
\* largest absolute value a counter is driven to
MaxCount == 3
\* largest length a list is driven to
MaxList == 2
\* the expiry, in seconds, the callers ask for
MaxTTL == 2

(***************************************************************************)
(* Inputs: namespaces, logical keys, patterns.                             *)
(***************************************************************************)
NsA    == <<"a">>
NsAB   == <<"a", ":", "b">>
NsGlob == <<"a", "*">>

\* namespaces the callers build wrappers for: a plain one, one nested in
\* it, and one that contains a pattern character of the store
Namespaces == {NsA, NsAB, NsGlob}

KeyK  == <<"k">>
KeyBK == <<"b", ":", "k">>

\* logical keys the callers use
Keys == {KeyK, KeyBK}

\* patterns the callers scan with
Patterns == {<<"*">>, <<"k">>, <<"b", ":", "*">>, <<"?">>}

Payloads == 1..MaxVal

\* "no value" (null) and the reply of a successful SET
NULL == [t |-> "null"]
OK   == [t |-> "OK"]
\* the rejection of a command sent on a closed connection
CLOSED == [t |-> "error", e |-> "connection closed"]
\* origin tag of a call made without a namespace wrapper
DIRECT == <<"direct">>

(***************************************************************************)
(* String helpers (String.prototype.endsWith / startsWith / slice).        *)
(***************************************************************************)
EndsWithColon(s) == Len(s) > 0 /\ s[Len(s)] = ":"

StartsWith(s, p) == Len(p) <= Len(s) /\ SubSeq(s, 1, Len(p)) = p

Slice(s, n) == SubSeq(s, n + 1, Len(s))

(***************************************************************************)
(* The prefix rewrite functions of createNamespacedRedis.                  *)
(***************************************************************************)
\* a normalisation that appends the separator whatever the namespace ends with
Prefix_appending(namespace) == namespace \o <<":">>

\* const prefix = namespace.endsWith(":") ? namespace : `${namespace}:`
Prefix(namespace) ==
    IF EndsWithColon(namespace) THEN namespace ELSE namespace \o <<":">>

\* addPrefix that escapes the separators inside the key
addPrefix_escaped(prefix, key) ==
    prefix \o [i \in 1..Len(key) |-> IF key[i] = ":" THEN "_" ELSE key[i]]

\* addPrefix that forgets the prefix
addPrefix_unprefixed(prefix, key) == key

\* const addPrefix = (key) => `${prefix}${key}`
addPrefix(prefix, key) == prefix \o key

\* removePrefix that hands the physical key back
removePrefix_kept(prefix, key) == key

\* const removePrefix = (key) =>
\*     key.startsWith(prefix) ? key.slice(prefix.length) : key
removePrefix(prefix, key) ==
    IF StartsWith(key, prefix) THEN Slice(key, Len(prefix)) ELSE key

\* keys.map(f)
\* keys.map(removePrefix)
StripAll(prefix, keys) ==
    [i \in 1..Len(keys) |-> removePrefix(prefix, keys[i])]

(***************************************************************************)
(* The store behind the shared connection.                                 *)
(***************************************************************************)
\* MATCH of the store's SCAN: glob matching with "*" (any run of
\* characters) and "?" (any one character); every other character of the
\* model's alphabet matches itself.
RECURSIVE GlobMatch(_, _)
GlobMatch(p, s) ==
    IF p = <<>> THEN s = <<>>
    ELSE IF Head(p) = "*"
         THEN GlobMatch(Tail(p), s) \/ (s # <<>> /\ GlobMatch(p, Tail(s)))
    ELSE IF Head(p) = "?"
         THEN s # <<>> /\ GlobMatch(Tail(p), Tail(s))
    ELSE s # <<>> /\ Head(s) = Head(p) /\ GlobMatch(Tail(p), Tail(s))

\* the cursor page a physical key lives in
Slot(pk) == Len(pk) % NumSlots

\* a set of keys as an array, in the store's (arbitrary but fixed) order
RECURSIVE SetToSeq(_)
SetToSeq(S) ==
    IF S = {} THEN <<>>
    ELSE LET x == CHOOSE y \in S : TRUE IN <<x>> \o SetToSeq(S \ {x})

\* the elements of an array
Range(s) == {s[i] : i \in 1..Len(s)}

\* one round of SCAN cursor MATCH pattern: [next cursor, keys of the page]
ScanPage(st, cursor, pattern) ==
    [cursor |-> (cursor + 1) % NumSlots,
     keys   |-> SetToSeq({pk \in DOMAIN st :
                            Slot(pk) = cursor /\ GlobMatch(pattern, pk)})]

\* a DEL that answers with the number of keys it was given
DelKeys_given(st, keys) ==
    [count |-> Len(keys),
     store |-> [pk \in DOMAIN st \ Range(keys) |-> st[pk]]]

\* DEL k1 .. kn: the keys removed and the store afterwards
DelKeys(st, keys) ==
    [count |-> Cardinality(Range(keys) \cap DOMAIN st),
     store |-> [pk \in DOMAIN st \ Range(keys) |-> st[pk]]]

\* the store with key bound to val
SetKey(st, pk, val) ==
    [k \in DOMAIN st \cup {pk} |-> IF k = pk THEN val ELSE st[k]]

\* the value at a key, null when there is none
GetKey(st, pk) == IF pk \in DOMAIN st THEN st[pk] ELSE NULL

(***************************************************************************)
(* Values.  A string of the store is text number n, the decimal numeral of *)
(* n, or the JSON text of object n.  A JavaScript value handed to the      *)
(* wrapper is a string or a number.                                        *)
(***************************************************************************)
Text(n)    == [fmt |-> "text", n |-> n]
Numeral(n) == [fmt |-> "num", n |-> n]
JsonOf(n)  == [fmt |-> "json", n |-> n]

JsString(c) == [js |-> "string", c |-> c]
JsNumber(n) == [js |-> "number", n |-> n]
JsObject(n) == [js |-> "object", n |-> n]
JsNull      == [js |-> "null"]

\* value.toString() of a string | number
toString(x) == IF x.js = "number" THEN Numeral(x.n) ELSE x.c

\* JSON.stringify(obj) of a number or an object
Stringify(x) == IF x.js = "number" THEN Numeral(x.n) ELSE JsonOf(x.n)

\* try { return JSON.parse(v) } catch { return null }
ParseOrNull(c) ==
    IF c.fmt = "num" THEN JsNumber(c.n)
    ELSE IF c.fmt = "json" THEN JsObject(c.n)
    ELSE JsNull

\* the options of SET the callers use: none, EX seconds, NX, XX, KEEPTTL
NoOpts == [EX |-> 0, NX |-> FALSE, XX |-> FALSE, KEEPTTL |-> FALSE]

(***************************************************************************)
(* Commands of the store.  Each yields the store afterwards, the reply and *)
(* whether the reply is an error.  by and key record, as history, the      *)
(* wrapper and logical key of the writing call.                            *)
(***************************************************************************)
WRONGTYPE == [t |-> "error", e |-> "WRONGTYPE"]
NOTINT    == [t |-> "error", e |-> "not an integer"]
SYNTAX    == [t |-> "error", e |-> "syntax error"]

Res(st, val) == [store |-> st, val |-> val, err |-> FALSE]
Err(st, e)   == [store |-> st, val |-> e, err |-> TRUE]

TypeOf(st, pk) == IF pk \in DOMAIN st THEN st[pk].t ELSE "none"

Without(st, pk) == [k \in DOMAIN st \ {pk} |-> st[k]]

Reverse(s) == [i \in 1..Len(s) |-> s[Len(s) + 1 - i]]

Min(a, b) == IF a < b THEN a ELSE b
Max(a, b) == IF a > b THEN a ELSE b

\* GET key
RGet(st, pk) ==
    IF TypeOf(st, pk) = "none" THEN Res(st, NULL)
    ELSE IF TypeOf(st, pk) = "string" THEN Res(st, st[pk])
    ELSE Err(st, WRONGTYPE)

\* SET key value [EX s] [NX] [XX] [KEEPTTL]
RSet(st, pk, c, opts, by, key) ==
    LET exists == pk \in DOMAIN st
        ttl    == IF opts.EX > 0 THEN opts.EX
                  ELSE IF opts.KEEPTTL /\ exists THEN st[pk].ttl
                  ELSE -1
        exp    == IF opts.EX > 0 THEN opts.EX
                  ELSE IF opts.KEEPTTL /\ exists THEN st[pk].exp
                  ELSE 0
    IN
    IF (opts.NX /\ opts.XX) \/ (opts.EX > 0 /\ opts.KEEPTTL)
    THEN Err(st, SYNTAX)
    ELSE IF (opts.NX /\ exists) \/ (opts.XX /\ ~exists)
    THEN Res(st, NULL)
    ELSE Res(SetKey(st, pk, [t |-> "string", v |-> c, ttl |-> ttl,
                             exp |-> exp,
                             by |-> by, key |-> key]), OK)

\* DEL k1 .. kn
RDel(st, pks) == LET d == DelKeys(st, pks) IN Res(d.store, d.count)

\* EXISTS key, as the boolean the client makes of it
RExists(st, pk) == Res(st, pk \in DOMAIN st)

\* an increment that starts from 0 whatever the key holds
RIncrBy_reset(st, pk, d, by, key) ==
    Res(SetKey(st, pk, [t |-> "string", v |-> Numeral(d), ttl |-> -1,
                        exp |-> 0, by |-> by, key |-> key]), d)

\* INCR key / DECR key (d = 1 / -1)
RIncrBy(st, pk, d, by, key) ==
    IF TypeOf(st, pk) = "none"
    THEN Res(SetKey(st, pk, [t |-> "string", v |-> Numeral(d), ttl |-> -1,
                             exp |-> 0,
                             by |-> by, key |-> key]), d)
    ELSE IF TypeOf(st, pk) # "string" THEN Err(st, WRONGTYPE)
    ELSE IF st[pk].v.fmt # "num" THEN Err(st, NOTINT)
    ELSE Res([st EXCEPT ![pk] = [@ EXCEPT !.v = Numeral(@.n + d),
                                          !.by = by, !.key = key]],
             st[pk].v.n + d)

\* MGET k1 .. kn: the strings, null for a key that is absent or no string
RMGet(st, pks) ==
    Res(st, [i \in 1..Len(pks) |->
               IF TypeOf(st, pks[i]) = "string" THEN st[pks[i]] ELSE NULL])

\* MSET k1 v1 .. kn vn, kv a function from keys to strings
RMSet(st, kv, by, keyOf) ==
    Res([k \in DOMAIN st \cup DOMAIN kv |->
            IF k \in DOMAIN kv
            THEN [t |-> "string", v |-> kv[k], ttl |-> -1, exp |-> 0,
                  by |-> by, key |-> keyOf[k]]
            ELSE st[k]], OK)

\* EXPIRE key seconds (seconds > 0)
RExpire(st, pk, seconds) ==
    IF pk \in DOMAIN st
    THEN Res([st EXCEPT ![pk] = [@ EXCEPT !.ttl = seconds,
                                          !.exp = seconds]], 1)
    ELSE Res(st, 0)

\* TTL key
RTtl(st, pk) == Res(st, IF pk \in DOMAIN st THEN st[pk].ttl ELSE -2)

\* HSET key field value / HMSET key f1 v1 .. fn vn; the reply of HSET is the
\* number of new fields, the one of HMSET is OK
RHSetAll(st, pk, kv, by, key, reply) ==
    LET old == IF TypeOf(st, pk) = "hash" THEN st[pk].h ELSE <<>>
        new == [f \in DOMAIN old \cup DOMAIN kv |->
                  IF f \in DOMAIN kv THEN kv[f] ELSE old[f]]
        ttl == IF pk \in DOMAIN st THEN st[pk].ttl ELSE -1
        exp == IF pk \in DOMAIN st THEN st[pk].exp ELSE 0
    IN
    IF TypeOf(st, pk) \notin {"none", "hash"} THEN Err(st, WRONGTYPE)
    ELSE Res(SetKey(st, pk, [t |-> "hash", h |-> new, ttl |-> ttl,
                             exp |-> exp,
                             by |-> by, key |-> key]),
             IF reply = "count" THEN Cardinality(DOMAIN kv \ DOMAIN old)
                                ELSE OK)

\* the fields of the hash at key
HashAt(st, pk) == IF TypeOf(st, pk) = "hash" THEN st[pk].h ELSE <<>>

FieldOf(h, f) == IF f \in DOMAIN h THEN h[f] ELSE NULL

\* HGET key field
RHGet(st, pk, f) ==
    IF TypeOf(st, pk) \notin {"none", "hash"} THEN Err(st, WRONGTYPE)
    ELSE Res(st, FieldOf(HashAt(st, pk), f))

\* HMGET key f1 .. fn
RHMGet(st, pk, fields) ==
    IF TypeOf(st, pk) \notin {"none", "hash"} THEN Err(st, WRONGTYPE)
    ELSE Res(st, [i \in 1..Len(fields) |-> FieldOf(HashAt(st, pk), fields[i])])

\* HGETALL key
RHGetAll(st, pk) ==
    IF TypeOf(st, pk) \notin {"none", "hash"} THEN Err(st, WRONGTYPE)
    ELSE Res(st, HashAt(st, pk))

\* the list at key
ListAt(st, pk) == IF TypeOf(st, pk) = "list" THEN st[pk].l ELSE <<>>

\* LPUSH / RPUSH key v1 .. vn: LPUSH puts each value in turn at the head
RPush(st, pk, values, left, by, key) ==
    LET old == ListAt(st, pk)
        new == IF left THEN Reverse(values) \o old ELSE old \o values
        ttl == IF pk \in DOMAIN st THEN st[pk].ttl ELSE -1
        exp == IF pk \in DOMAIN st THEN st[pk].exp ELSE 0
    IN
    IF TypeOf(st, pk) \notin {"none", "list"} THEN Err(st, WRONGTYPE)
    ELSE Res(SetKey(st, pk, [t |-> "list", l |-> new, ttl |-> ttl,
                             exp |-> exp,
                             by |-> by, key |-> key]), Len(new))

\* LRANGE key start stop: both ends included, negative indexes count from
\* the end of the list
RLRange(st, pk, start, stop) ==
    LET l  == ListAt(st, pk)
        n  == Len(l)
        s0 == IF start < 0 THEN Max(n + start, 0) ELSE start
        e0 == IF stop < 0 THEN n + stop ELSE Min(stop, n - 1)
    IN
    IF TypeOf(st, pk) \notin {"none", "list"} THEN Err(st, WRONGTYPE)
    ELSE Res(st, IF s0 > e0 \/ s0 >= n THEN <<>> ELSE SubSeq(l, s0 + 1, e0 + 1))

\* LPOP / RPOP key; the key goes with its last element
RPop(st, pk, left) ==
    LET l    == ListAt(st, pk)
        x    == IF left THEN l[1] ELSE l[Len(l)]
        rest == IF left THEN Tail(l) ELSE SubSeq(l, 1, Len(l) - 1)
    IN
    IF TypeOf(st, pk) = "none" THEN Res(st, NULL)
    ELSE IF TypeOf(st, pk) # "list" THEN Err(st, WRONGTYPE)
    ELSE Res(IF rest = <<>> THEN Without(st, pk)
             ELSE [st EXCEPT ![pk] = [@ EXCEPT !.l = rest]], x)

\* the set at key
SetAt(st, pk) == IF TypeOf(st, pk) = "set" THEN st[pk].s ELSE {}

\* SADD key m1 .. mn: the reply is the number of new members
RSAdd(st, pk, members, by, key) ==
    LET old == SetAt(st, pk)
        ttl == IF pk \in DOMAIN st THEN st[pk].ttl ELSE -1
        exp == IF pk \in DOMAIN st THEN st[pk].exp ELSE 0
    IN
    IF TypeOf(st, pk) \notin {"none", "set"} THEN Err(st, WRONGTYPE)
    ELSE Res(SetKey(st, pk, [t |-> "set", s |-> old \cup Range(members),
                             ttl |-> ttl, exp |-> exp,
                             by |-> by, key |-> key]),
             Cardinality(Range(members) \ old))

\* SREM key m1 .. mn: the reply is the number of members removed; the key
\* goes with its last member
RSRem(st, pk, members) ==
    LET old  == SetAt(st, pk)
        rest == old \ Range(members)
    IN
    IF TypeOf(st, pk) = "none" THEN Res(st, 0)
    ELSE IF TypeOf(st, pk) # "set" THEN Err(st, WRONGTYPE)
    ELSE Res(IF rest = {} THEN Without(st, pk)
             ELSE [st EXCEPT ![pk] = [@ EXCEPT !.s = rest]],
             Cardinality(old \cap Range(members)))

\* SMEMBERS key
RSMembers(st, pk) ==
    IF TypeOf(st, pk) \notin {"none", "set"} THEN Err(st, WRONGTYPE)
    ELSE Res(st, SetAt(st, pk))

(***************************************************************************)
(* State.                                                                  *)
(***************************************************************************)
VARIABLES
    store,  \* keyspace of the store: physical key -> value; a value carries
            \* its payload v and, as history, the wrapper and the logical
            \* key it was written through (by, key)
    call,   \* the in-flight scanAll / clearNamespace call (its cursor loop)
    ret,    \* the last completed call: the wrapper ns and argument key it
            \* was made with, the key arguments sent with the call it
            \* forwarded to the shared connection, and the result val
    connOpen,  \* the shared connection (RedisWrapper.client) is open
    subs,      \* the subscriptions, in the order of the subscribe calls:
               \* physical channel pchan, position st of the subscribe /
               \* release code, dedicated connection open, messages pushed
               \* to that connection (pending) and those handed to the
               \* callback (inbox)
    disposed,  \* history: the namespaces whose wrapper has been disposed
    budget,    \* the calls the callers may still start; Unlimited when the
               \* run is not cut short
    multi      \* the MULTI state of the shared connection: on after MULTI
               \* until EXEC, the commands the store queued since, and
               \* dirty once the store refused to queue one

vars == <<store, call, ret, connOpen, subs, disposed, budget, multi>>

\* the shared connection outside a transaction
NoMulti == [on |-> FALSE, queue |-> <<>>, dirty |-> FALSE]

Unlimited == -1

NoCall == [kind |-> "none"]
NoRet  == [op |-> "none", ns |-> DIRECT, sent |-> <<>>]

Init ==
    /\ store = <<>>
    /\ call = NoCall
    /\ ret = NoRet
    /\ connOpen = TRUE
    /\ subs = <<>>
    /\ disposed = {}
    /\ budget = Unlimited
    /\ multi = NoMulti

\* the same state, for the runs of at most MaxCalls calls
InitOps ==
    /\ store = <<>>
    /\ call = NoCall
    /\ ret = NoRet
    /\ connOpen = TRUE
    /\ subs = <<>>
    /\ disposed = {}
    /\ budget = MaxCalls
    /\ multi = NoMulti

\* a caller starts a call
Call ==
    /\ budget # 0
    /\ budget' = IF budget = Unlimited THEN budget ELSE budget - 1

\* another actor changed the store while a scanAll / clearNamespace runs
Touch(c) == IF c.kind = "none" THEN c ELSE [c EXCEPT !.touched = TRUE]

\* the connection this.client of the RedisWrapper, which every wrapper
\* shares; the connections duplicate() opens are numbered from 1
SharedConn == 0

\* the reply to a command sent on a connection that is in subscriber mode
SUBMODE == [t |-> "error", e |-> "subscriber mode"]

\* the shared connection carries a subscription: it accepts no ordinary
\* command ("use a duplicate connection to avoid blocking the main client")
SubscribedMode ==
    \E i \in 1..Len(subs) :
        subs[i].conn = SharedConn /\ subs[i].st = "subscribed"

\* a command sent on the shared connection is executed
Usable == connOpen /\ ~SubscribedMode

\* the reply to a command the shared connection does not execute
Rejection == IF connOpen THEN SUBMODE ELSE CLOSED

\* a wrapper that resolves to null when the forwarded call fails
Return_swallow(fwd) == IF fwd.err THEN [err |-> FALSE, val |-> NULL] ELSE fwd

\* return redis.op(...): the wrapper's promise settles as the forwarded
\* call's promise does
Return(fwd) == fwd

\* the reply of the store to a command it queued after MULTI
QUEUED == [t |-> "QUEUED"]

\* a command the store queued for a caller other than the transaction: at
\* EXEC the keys it writes get the values in effect (null: the key is
\* removed); effect is taken when the command is queued, which is what the
\* command does at EXEC when its outcome does not depend on the store
Captured(op, ns, sent, res, writes) ==
    [cmd |-> "captured", op |-> op, by |-> ns, sent |-> sent,
     effect |-> IF writes /\ ~res.err
                THEN [pk \in Range(sent) |-> GetKey(res.store, pk)]
                ELSE <<>>]


(***************************************************************************)
(* Methods of RedisWrapper (the shared connection) that do more than hand  *)
(* their arguments to the client.                                          *)
(***************************************************************************)
\* async set(key, value, opts): the options that are set become arguments
\* of SET, the value goes through toString()
redis_set(st, key, value, opts, by, lk) ==
    RSet(st, key, toString(value),
         [EX |-> IF opts.EX # 0 THEN opts.EX ELSE 0,
          NX |-> opts.NX, XX |-> opts.XX, KEEPTTL |-> opts.KEEPTTL],
         by, lk)

\* async getJSON(key): null for no value and for a value that does not parse
redis_getJSON(st, key) ==
    LET r == RGet(st, key) IN
    IF r.err THEN r
    ELSE IF r.val = NULL THEN Res(st, JsNull)
    ELSE Res(st, ParseOrNull(r.val.v))

\* async setJSON(key, obj, opts)
redis_setJSON(st, key, obj, opts, by, lk) ==
    redis_set(st, key, JsString(Stringify(obj)), opts, by, lk)

\* an exists that is true when every key given exists
redis_exists_all(st, keys) ==
    IF Len(keys) = 0 THEN Res(st, FALSE)
    ELSE Res(st, \A i \in 1..Len(keys) : keys[i] \in DOMAIN st)

\* async exists(...keys): false without keys, else the first key only
redis_exists(st, keys) ==
    IF Len(keys) = 0 THEN Res(st, FALSE) ELSE RExists(st, keys[1])

\* async mset(kv)
redis_mset(st, kv, by, keyOf) ==
    RMSet(st, [k \in DOMAIN kv |-> toString(kv[k])], by, keyOf)

\* async hset(hash, field, value)
redis_hset(st, hash, field, value, by, lk) ==
    RHSetAll(st, hash, field :> toString(value), by, lk, "count")

\* async hmset(hash, kv)
redis_hmset(st, hash, kv, by, lk) ==
    RHSetAll(st, hash, [f \in DOMAIN kv |-> toString(kv[f])], by, lk, "ok")

\* values.map(v => v.toString())
ToStrings(values) == [i \in 1..Len(values) |-> toString(values[i])]

\* async lpush(list, ...values) / async rpush(list, ...values)
redis_push(st, list, values, left, by, lk) ==
    RPush(st, list, ToStrings(values), left, by, lk)

\* async sadd(key, ...members)
redis_sadd(st, key, members, by, lk) ==
    RSAdd(st, key, ToStrings(members), by, lk)

\* async srem(key, ...members)
redis_srem(st, key, members) == RSRem(st, key, ToStrings(members))

\* async setTTL(key, seconds): true when the expiry was set
redis_setTTL(st, key, seconds) ==
    LET r == RExpire(st, key, seconds) IN Res(r.store, r.val = 1)

(***************************************************************************)
(* Operations of the namespace wrapper.  Each action is the whole handler: *)
(* the argument rewrite, the forwarded RedisWrapper call and the command   *)
(* the store executes for it.  A command sent on the shared connection     *)
(* after it was closed is rejected and changes nothing.                    *)
(***************************************************************************)
\* a call made with argument arg through the wrapper of ns (or directly),
\* forwarded with the key arguments sent, on which the store answers res
Exec(op, ns, arg, sent, res, writes) ==
    LET fwd == IF ~Usable THEN [err |-> TRUE, val |-> Rejection]
               ELSE IF multi.on THEN [err |-> FALSE, val |-> QUEUED]
               ELSE [err |-> res.err, val |-> res.val]
        out == Return(fwd)
        runs == Usable /\ ~multi.on
    IN
    /\ store' = IF runs THEN res.store ELSE store
    /\ ret' = [op |-> op, ns |-> ns, key |-> arg, sent |-> sent,
               err |-> out.err, val |-> out.val, fwd |-> fwd]
    /\ call' = IF runs /\ writes THEN Touch(call) ELSE call
    /\ multi' = IF Usable /\ multi.on
                THEN [multi EXCEPT
                        !.queue = Append(@, Captured(op, ns, sent, res,
                                                     writes))]
                ELSE multi
    /\ UNCHANGED <<connOpen, subs, disposed>>

\* a map that rewrites the first key only
PrefixAll_firstOnly(ns, keys) ==
    [i \in 1..Len(keys) |->
        IF i = 1 THEN addPrefix(Prefix(ns), keys[i]) ELSE keys[i]]

\* keys.map(addPrefix)
PrefixAll(ns, keys) ==
    [i \in 1..Len(keys) |-> addPrefix(Prefix(ns), keys[i])]

\* export function createNamespacedRedis(redis, namespace) {
\*   const prefix = ...; const addPrefix = ...; const removePrefix = ...;
\*   return { ... } }: the prefix is computed and the object of closures
\* returned; nothing is sent on the connection
createNamespacedRedis(ns) ==
    /\ ret' = [op |-> "createNamespacedRedis", ns |-> ns, key |-> <<>>,
               sent |-> <<>>, err |-> FALSE, val |-> Prefix(ns)]
    /\ UNCHANGED <<store, call, connOpen, subs, disposed, multi>>
    /\ Call

\* async get(key) { return redis.get(addPrefix(key)) }
Get(ns, key) ==
    LET pk == addPrefix(Prefix(ns), key) IN
    /\ Call
    /\ Exec("get", ns, key, <<pk>>, RGet(store, pk), FALSE)

\* async set(key, value, options) {
\*   return redis.set(addPrefix(key), value, options) }
Set(ns, key, value, options) ==
    LET pk == addPrefix(Prefix(ns), key) IN
    /\ Call
    /\ Exec("set", ns, key, <<pk>>,
            redis_set(store, pk, value, options, ns, key), TRUE)

\* async del(...keys) { return redis.del(...keys.map(addPrefix)) }
Del(ns, keys) ==
    LET pks == PrefixAll(ns, keys) IN
    /\ Call
    /\ Exec("del", ns, keys, pks, RDel(store, pks), TRUE)

\* async exists(...keys) { return redis.exists(...keys.map(addPrefix)) }
Exists(ns, keys) ==
    LET pks == PrefixAll(ns, keys) IN
    /\ Call
    /\ Exec("exists", ns, keys, pks, redis_exists(store, pks), FALSE)

\* async getJSON(key) { return redis.getJSON(addPrefix(key)) }
GetJSON(ns, key) ==
    LET pk == addPrefix(Prefix(ns), key) IN
    /\ Call
    /\ Exec("getJSON", ns, key, <<pk>>, redis_getJSON(store, pk), FALSE)

\* async setJSON(key, value, options) {
\*   return redis.setJSON(addPrefix(key), value, options) }
SetJSON(ns, key, value, options) ==
    LET pk == addPrefix(Prefix(ns), key) IN
    /\ Call
    /\ Exec("setJSON", ns, key, <<pk>>,
            redis_setJSON(store, pk, value, options, ns, key), TRUE)

\* async mget(...keys) { return redis.mget(...keys.map(addPrefix)) }
MGet(ns, keys) ==
    LET pks == PrefixAll(ns, keys) IN
    /\ Call
    /\ Exec("mget", ns, keys, pks, RMGet(store, pks), FALSE)

\* for (const [key, value] of Object.entries(data))
\*   prefixedData[addPrefix(key)] = value
PrefixedData(ns, data) ==
    [pk \in {addPrefix(Prefix(ns), k) : k \in DOMAIN data} |->
        data[CHOOSE k \in DOMAIN data : addPrefix(Prefix(ns), k) = pk]]

\* async mset(data) { ...; return redis.mset(prefixedData) }
MSet(ns, data) ==
    LET prefixedData == PrefixedData(ns, data) IN
    /\ Call
    /\ Exec("mset", ns, SetToSeq(DOMAIN data), SetToSeq(DOMAIN prefixedData),
            redis_mset(store, prefixedData, ns,
                       [pk \in DOMAIN prefixedData |->
                          CHOOSE k \in DOMAIN data :
                             addPrefix(Prefix(ns), k) = pk]),
            TRUE)

\* async hget(key, field) { return redis.hget(addPrefix(key), field) }
HGet(ns, key, field) ==
    LET pk == addPrefix(Prefix(ns), key) IN
    /\ Call
    /\ Exec("hget", ns, key, <<pk>>, RHGet(store, pk, field), FALSE)

\* an hset that puts a prefix on the field name too
HSet_prefixedField(ns, key, field, value) ==
    LET pk == addPrefix(Prefix(ns), key) IN
    /\ Call
    /\ Exec("hset", ns, key, <<pk>>,
            redis_hset(store, pk, "ns:" \o field, value, ns, key), TRUE)

\* async hset(key, field, value) {
\*   return redis.hset(addPrefix(key), field, value) }
HSet(ns, key, field, value) ==
    LET pk == addPrefix(Prefix(ns), key) IN
    /\ Call
    /\ Exec("hset", ns, key, <<pk>>,
            redis_hset(store, pk, field, value, ns, key), TRUE)

\* async hmget(key, ...fields) {
\*   return redis.hmget(addPrefix(key), ...fields) }
HMGet(ns, key, fields) ==
    LET pk == addPrefix(Prefix(ns), key) IN
    /\ Call
    /\ Exec("hmget", ns, key, <<pk>>, RHMGet(store, pk, fields), FALSE)

\* async hmset(key, data) { return redis.hmset(addPrefix(key), data) }
HMSet(ns, key, data) ==
    LET pk == addPrefix(Prefix(ns), key) IN
    /\ Call
    /\ Exec("hmset", ns, key, <<pk>>,
            redis_hmset(store, pk, data, ns, key), TRUE)

\* async hgetAll(key) { return redis.hgetAll(addPrefix(key)) }
HGetAll(ns, key) ==
    LET pk == addPrefix(Prefix(ns), key) IN
    /\ Call
    /\ Exec("hgetAll", ns, key, <<pk>>, RHGetAll(store, pk), FALSE)

\* an incr that forwards the call twice
Incr_twice(ns, key) ==
    LET pk == addPrefix(Prefix(ns), key)
        r1 == RIncrBy(store, pk, 1, ns, key)
        r  == IF r1.err THEN r1 ELSE RIncrBy(r1.store, pk, 1, ns, key)
    IN
    /\ IF r.err THEN TRUE ELSE r.val <= MaxCount
    /\ Call
    /\ Exec("incr", ns, key, <<pk>>, r, TRUE)

\* async incr(key) { return redis.incr(addPrefix(key)) }
Incr(ns, key) ==
    LET pk == addPrefix(Prefix(ns), key)
        r  == RIncrBy(store, pk, 1, ns, key)
    IN
    /\ IF r.err THEN TRUE ELSE r.val <= MaxCount
    /\ Call
    /\ Exec("incr", ns, key, <<pk>>, r, TRUE)

\* async decr(key) { return redis.decr(addPrefix(key)) }
Decr(ns, key) ==
    LET pk == addPrefix(Prefix(ns), key)
        r  == RIncrBy(store, pk, -1, ns, key)
    IN
    /\ IF r.err THEN TRUE ELSE r.val >= -MaxCount
    /\ Call
    /\ Exec("decr", ns, key, <<pk>>, r, TRUE)

\* async ttl(key) { return redis.ttl(addPrefix(key)) }
Ttl(ns, key) ==
    LET pk == addPrefix(Prefix(ns), key) IN
    /\ Call
    /\ Exec("ttl", ns, key, <<pk>>, RTtl(store, pk), FALSE)

\* async setTTL(key, seconds) {
\*   return redis.setTTL(addPrefix(key), seconds) }
SetTTL(ns, key, seconds) ==
    LET pk == addPrefix(Prefix(ns), key) IN
    /\ Call
    /\ Exec("setTTL", ns, key, <<pk>>, redis_setTTL(store, pk, seconds), TRUE)

\* async expire(key, seconds) {
\*   return redis.expire(addPrefix(key), seconds) }
Expire(ns, key, seconds) ==
    LET pk == addPrefix(Prefix(ns), key) IN
    /\ Call
    /\ Exec("expire", ns, key, <<pk>>, RExpire(store, pk, seconds), TRUE)

\* async lpush(key, ...values) {
\*   return redis.lpush(addPrefix(key), ...values) }
LPush(ns, key, values) ==
    LET pk == addPrefix(Prefix(ns), key)
        r  == redis_push(store, pk, values, TRUE, ns, key)
    IN
    /\ IF r.err THEN TRUE ELSE r.val <= MaxList
    /\ Call
    /\ Exec("lpush", ns, key, <<pk>>, r, TRUE)

\* async rpush(key, ...values) {
\*   return redis.rpush(addPrefix(key), ...values) }
RPushW(ns, key, values) ==
    LET pk == addPrefix(Prefix(ns), key)
        r  == redis_push(store, pk, values, FALSE, ns, key)
    IN
    /\ IF r.err THEN TRUE ELSE r.val <= MaxList
    /\ Call
    /\ Exec("rpush", ns, key, <<pk>>, r, TRUE)

\* async lrange(key, start = 0, stop = -1) {
\*   return redis.lrange(addPrefix(key), start, stop) }
LRange(ns, key, start, stop) ==
    LET pk == addPrefix(Prefix(ns), key) IN
    /\ Call
    /\ Exec("lrange", ns, key, <<pk>>, RLRange(store, pk, start, stop), FALSE)

\* async lpop(key) { return redis.lpop(addPrefix(key)) }
LPop(ns, key) ==
    LET pk == addPrefix(Prefix(ns), key) IN
    /\ Call
    /\ Exec("lpop", ns, key, <<pk>>, RPop(store, pk, TRUE), TRUE)

\* async rpop(key) { return redis.rpop(addPrefix(key)) }
RPopW(ns, key) ==
    LET pk == addPrefix(Prefix(ns), key) IN
    /\ Call
    /\ Exec("rpop", ns, key, <<pk>>, RPop(store, pk, FALSE), TRUE)

\* async sadd(key, ...members) {
\*   return redis.sadd(addPrefix(key), ...members) }
SAdd(ns, key, members) ==
    LET pk == addPrefix(Prefix(ns), key) IN
    /\ Call
    /\ Exec("sadd", ns, key, <<pk>>,
            redis_sadd(store, pk, members, ns, key), TRUE)

\* async srem(key, ...members) {
\*   return redis.srem(addPrefix(key), ...members) }
SRem(ns, key, members) ==
    LET pk == addPrefix(Prefix(ns), key) IN
    /\ Call
    /\ Exec("srem", ns, key, <<pk>>, redis_srem(store, pk, members), TRUE)

\* async smembers(key) { return redis.smembers(addPrefix(key)) }
SMembers(ns, key) ==
    LET pk == addPrefix(Prefix(ns), key) IN
    /\ Call
    /\ Exec("smembers", ns, key, <<pk>>, RSMembers(store, pk), FALSE)

\* redis.get(physicalKey) issued by the caller on the shared connection
DirectGet(pk) ==
    /\ Call
    /\ Exec("get", DIRECT, pk, <<pk>>, RGet(store, pk), FALSE)


\* redis.hget(physicalKey, field) issued by the caller on the shared
\* connection
DirectHGet(pk, field) ==
    /\ Call
    /\ Exec("hget", DIRECT, pk, <<pk>>, RHGet(store, pk, field), FALSE)

\* the argument lists of the variadic calls
KeyLists == {<<k>> : k \in Keys} \cup {<<k1, k2>> : k1 \in Keys, k2 \in Keys}

\* every physical key a wrapper of the model can address
PhysKeys == {addPrefix(Prefix(ns), k) : ns \in Namespaces, k \in Keys}

(***************************************************************************)
(* Pattern scan and clearNamespace.  RedisWrapper.scanAll awaits one SCAN  *)
(* per round of its cursor loop, so other callers' commands may reach the  *)
(* store between two rounds, and between the scan and the DEL of           *)
(* clearNamespace.                                                         *)
(***************************************************************************)
\* RedisWrapper.scanAll on a store nobody else changes meanwhile
RECURSIVE ScanLoop(_, _, _, _)
ScanLoop(st, cursor, pattern, out) ==
    LET res == ScanPage(st, cursor, pattern) IN
    IF res.cursor # 0 THEN ScanLoop(st, res.cursor, pattern, out \o res.keys)
    ELSE out \o res.keys

\* a normalisation that never appends the separator
clearPrefix_bare(namespace) == namespace

\* const prefix = namespace.endsWith(":") ? namespace : `${namespace}:`
\* (clearNamespace normalises the namespace with its own copy of the line)
clearPrefix(namespace) ==
    IF EndsWithColon(namespace) THEN namespace ELSE namespace \o <<":">>

\* a guard that sends the del whatever the scan found
ShouldDel_always(keys) == TRUE

\* if (keys.length > 0)
ShouldDel(keys) == Len(keys) > 0

\* the physical keys that start with a prefix
KeysUnder(st, prefix) == {pk \in DOMAIN st : StartsWith(pk, prefix)}

\* async scanAll(pattern) { const prefixedPattern = addPrefix(pattern);
\*   const keys = await redis.scanAll(prefixedPattern, count); ...
\* up to the first SCAN being sent with cursor "0"
ScanAllStart(ns, pattern) ==
    LET prefixedPattern == addPrefix(Prefix(ns), pattern) IN
    /\ call.kind = "none"
    /\ call' = [kind |-> "scanAll", ns |-> ns, arg |-> pattern,
                pattern |-> prefixedPattern, cursor |-> 0, out |-> <<>>,
                pc |-> "scan", touched |-> FALSE, held |-> 0]
    /\ UNCHANGED <<store, ret, connOpen, subs, disposed, multi>>
    /\ Call

\* clearNamespace(redis, namespace) up to the first SCAN being sent;
\* held remembers how many keys the wrapper of the namespace addresses at
\* that moment
ClearStart(ns) ==
    LET prefix  == clearPrefix(ns)
        pattern == prefix \o <<"*">>
    IN
    /\ call.kind = "none"
    /\ call' = [kind |-> "clear", ns |-> ns, arg |-> pattern,
                pattern |-> pattern, cursor |-> 0, out |-> <<>>,
                pc |-> "scan", touched |-> FALSE,
                held |-> Cardinality(KeysUnder(store, Prefix(ns)))]
    /\ UNCHANGED <<store, ret, connOpen, subs, disposed, multi>>
    /\ Call

\* the record of a completed scanAll / clearNamespace: raw are the keys
\* RedisWrapper.scanAll returned, dels the del calls clearNamespace made,
\* before the number of keys the loop held when its last reply came in
ScanRet(op, raw, dels, val) ==
    LET fwd == IF ~Usable THEN [err |-> TRUE, val |-> Rejection]
               ELSE [err |-> FALSE, val |-> IF op = "scanAll" THEN raw ELSE val]
        out == Return(fwd)
    IN
    [op |-> op, ns |-> call.ns, key |-> call.arg,
     sent |-> IF dels = 0 THEN <<call.pattern>> ELSE raw,
     err |-> out.err, val |-> IF fwd.err THEN out.val ELSE val,
     fwd |-> fwd,
     raw |-> raw, dels |-> dels, touched |-> call.touched,
     before |-> Len(call.out)]

\* a loop that returns after its first round, whatever cursor came back
ScanRound_first ==
    /\ call.kind # "none"
    /\ call.pc = "scan"
    /\ LET res == ScanPage(store, call.cursor, call.pattern)
           out == call.out \o res.keys
       IN
       IF ~Usable
       THEN /\ call' = NoCall
            /\ ret' = ScanRet(IF call.kind = "clear" THEN "clearNamespace"
                                                     ELSE "scanAll",
                              <<>>, 0, NULL)
       ELSE IF call.kind = "scanAll"
       THEN /\ call' = NoCall
            /\ ret' = ScanRet("scanAll", out, 0,
                        StripAll(Prefix(call.ns), out))
       ELSE IF ShouldDel(out)
       THEN /\ call' = [call EXCEPT !.cursor = res.cursor, !.out = out,
                                    !.pc = "del"]
            /\ ret' = ret
       ELSE /\ call' = NoCall
            /\ ret' = ScanRet("clearNamespace", out, 0, 0)
    /\ UNCHANGED <<store, connOpen, subs, disposed, budget, multi>>

\* one round of the do/while loop of RedisWrapper.scanAll; when the store
\* answers cursor "0" the loop ends and the caller continues: the wrapper's
\* scanAll strips the prefixes and returns, clearNamespace sends its DEL or
\* returns 0.  A rejected SCAN ends the call with the rejection.
ScanRound ==
    /\ call.kind # "none"
    /\ call.pc = "scan"
    /\ LET res == ScanPage(store, call.cursor, call.pattern)
           out == call.out \o res.keys
       IN
       IF ~Usable
       THEN /\ call' = NoCall
            /\ ret' = ScanRet(IF call.kind = "clear" THEN "clearNamespace"
                                                     ELSE "scanAll",
                              <<>>, 0, NULL)
       ELSE IF res.cursor # 0
       THEN /\ call' = [call EXCEPT !.cursor = res.cursor, !.out = out]
            /\ ret' = ret
       ELSE IF call.kind = "scanAll"
       THEN /\ call' = NoCall
            /\ ret' = ScanRet("scanAll", out, 0,
                        StripAll(Prefix(call.ns), out))
       ELSE IF ShouldDel(out)
       THEN /\ call' = [call EXCEPT !.cursor = res.cursor, !.out = out,
                                    !.pc = "del"]
            /\ ret' = ret
       ELSE /\ call' = NoCall
            /\ ret' = ScanRet("clearNamespace", out, 0, 0)
    /\ UNCHANGED <<store, connOpen, subs, disposed, budget, multi>>

\* await wrapper.del(...(await wrapper.scanAll(pattern))): the del that is
\* given the keys the last scanAll of the wrapper returned; scanned and
\* clean remember the pattern of that scan and that nobody changed the
\* store during it
DelScanned(ns) ==
    LET keys == ret.val
        pks  == PrefixAll(ns, keys)
        res  == RDel(store, pks)
        fwd  == IF Usable THEN [err |-> res.err, val |-> res.val]
                          ELSE [err |-> TRUE, val |-> Rejection]
        out  == Return(fwd)
    IN
    /\ ret.op = "scanAll"
    /\ ret.ns = ns
    /\ ~ret.err
    /\ ret.val # <<>>
    /\ Call
    /\ store' = IF Usable THEN res.store ELSE store
    /\ ret' = [op |-> "del", ns |-> ns, key |-> keys, sent |-> pks,
               err |-> out.err, val |-> out.val, fwd |-> fwd,
               scanned |-> ret.key, clean |-> ~ret.touched]
    /\ call' = IF Usable THEN Touch(call) ELSE call
    /\ UNCHANGED <<connOpen, subs, disposed, multi>>

\* a delete of whatever matches the pattern when the DEL is sent
ClearDel_matching ==
    /\ call.kind = "clear"
    /\ call.pc = "del"
    /\ LET now == SetToSeq({pk \in DOMAIN store :
                              GlobMatch(call.pattern, pk)})
           d == DelKeys(store, now)
       IN
       /\ store' = IF Usable THEN d.store ELSE store
       /\ ret' = ScanRet("clearNamespace", call.out, 1, d.count)
    /\ call' = NoCall
    /\ UNCHANGED <<connOpen, subs, disposed, budget, multi>>

\* return await redis.del(...keys): the store executes the DEL
ClearDel ==
    /\ call.kind = "clear"
    /\ call.pc = "del"
    /\ LET d == DelKeys(store, call.out) IN
       /\ store' = IF Usable THEN d.store ELSE store
       /\ ret' = ScanRet("clearNamespace", call.out, 1, d.count)
    /\ call' = NoCall
    /\ UNCHANGED <<connOpen, subs, disposed, budget, multi>>

(***************************************************************************)
(* RedisWrapper.transaction.                                               *)
(***************************************************************************)
\* the key the transactions work on
TxKey == <<"t">>

\* the commands the store knows, among those the transactions send
KnownCmds == {"SET", "INCR", "GET"}

\* one element of the commands array; by DIRECT: sent by the transaction
Cmd(c, val) == [cmd |-> c, key |-> TxKey, val |-> val, by |-> DIRECT]

\* the arrays given to transaction: the one of the demo, one with a command
\* the store refuses to queue, and one with an empty element
Transactions ==
    {<<Cmd("SET", 0), Cmd("INCR", 0)>>,
     <<Cmd("SET", 0), Cmd("NOSUCH", 0), Cmd("INCR", 0)>>,
     <<Cmd("", 0), Cmd("GET", 0)>>}

\* if (parsed.length > 0 && parsed[0]): the commands that are sent
RECURSIVE Parsed(_)
Parsed(commands) ==
    IF commands = <<>> THEN <<>>
    ELSE (IF Head(commands).cmd = "" THEN <<>> ELSE <<Head(commands)>>)
            \o Parsed(Tail(commands))

\* the store executes one queued command
RunCmd(st, c) ==
    IF c.cmd = "SET"
        THEN RSet(st, c.key, Numeral(c.val), NoOpts, DIRECT, c.key)
    ELSE IF c.cmd = "INCR" THEN RIncrBy(st, c.key, 1, DIRECT, c.key)
    ELSE IF c.cmd = "GET" THEN RGet(st, c.key)
    ELSE Res([pk \in {k \in DOMAIN st \cup DOMAIN c.effect :
                        IF k \in DOMAIN c.effect THEN c.effect[k] # NULL
                                                 ELSE TRUE} |->
                 IF pk \in DOMAIN c.effect THEN c.effect[pk] ELSE st[pk]],
             OK)

\* EXEC: the store executes the queue in order, as one block
RECURSIVE RunQueue(_, _)
RunQueue(st, queue) ==
    IF queue = <<>> THEN [store |-> st, vals |-> <<>>]
    ELSE LET r    == RunCmd(st, Head(queue))
             rest == RunQueue(r.store, Tail(queue))
         IN [store |-> rest.store, vals |-> <<r.val>> \o rest.vals]

\* the errors of the store around MULTI
NESTED    == [t |-> "error", e |-> "MULTI calls can not be nested"]
UNKNOWN   == [t |-> "error", e |-> "unknown command"]
EXECABORT == [t |-> "error", e |-> "EXECABORT"]

\* the record of a completed transaction call: sent is the block the store
\* executed at EXEC, phase the statement the call ended in
TxRet(commands, phase, err, val, block) ==
    [op |-> "transaction", ns |-> DIRECT, key |-> commands, sent |-> block,
     err |-> err, val |-> val, phase |-> phase]

\* async transaction(commands) { await this.client.send("MULTI", []) ...
TransactionStart(commands) ==
    /\ call.kind = "none"
    /\ Call
    /\ IF ~Usable \/ multi.on
       THEN /\ ret' = TxRet(commands, "multi", TRUE,
                            IF ~Usable THEN Rejection ELSE NESTED, <<>>)
            /\ call' = call
            /\ multi' = multi
       ELSE /\ multi' = [on |-> TRUE, queue |-> <<>>, dirty |-> FALSE]
            /\ call' = [kind |-> "transaction", arg |-> commands,
                        rest |-> commands, touched |-> FALSE]
            /\ ret' = ret
    /\ UNCHANGED <<store, connOpen, subs, disposed>>

\* for (const cmd of commands) { ...
\*   await this.client.send(parsed[0], parsed.slice(1)) }
\* one turn of the loop: an empty element is skipped, the store queues a
\* command it knows and refuses another, on which send rejects and the
\* call ends there
TransactionQueue ==
    /\ call.kind = "transaction"
    /\ call.rest # <<>>
    /\ LET c == Head(call.rest) IN
       IF c.cmd = ""
       THEN /\ call' = [call EXCEPT !.rest = Tail(@)]
            /\ UNCHANGED <<ret, multi>>
       ELSE IF ~Usable
       THEN /\ ret' = TxRet(call.arg, "queue", TRUE, Rejection, <<>>)
            /\ call' = NoCall
            /\ multi' = multi
       ELSE IF c.cmd \notin KnownCmds
       THEN /\ ret' = TxRet(call.arg, "queue", TRUE, UNKNOWN, <<>>)
            /\ call' = NoCall
            /\ multi' = [multi EXCEPT !.dirty = TRUE]
       ELSE /\ call' = [call EXCEPT !.rest = Tail(@)]
            /\ multi' = [multi EXCEPT !.queue = Append(@, c)]
            /\ ret' = ret
    /\ UNCHANGED <<store, connOpen, subs, disposed, budget>>

\* return this.client.send("EXEC", [])
TransactionExec ==
    /\ call.kind = "transaction"
    /\ call.rest = <<>>
    /\ LET run == RunQueue(store, multi.queue) IN
       IF ~Usable
       THEN /\ ret' = TxRet(call.arg, "exec", TRUE, Rejection, <<>>)
            /\ UNCHANGED <<store, multi>>
       ELSE IF multi.dirty
       THEN /\ ret' = TxRet(call.arg, "exec", TRUE, EXECABORT, <<>>)
            /\ multi' = NoMulti
            /\ store' = store
       ELSE /\ ret' = TxRet(call.arg, "exec", FALSE, run.vals, multi.queue)
            /\ multi' = NoMulti
            /\ store' = run.store
    /\ call' = NoCall
    /\ UNCHANGED <<connOpen, subs, disposed, budget>>

(***************************************************************************)
(* Publish / subscribe.                                                    *)
(***************************************************************************)
\* subs with entry i replaced
SubsWith(i, sub) == [subs EXCEPT ![i] = sub]

\* a subscribe that registers the channel on the shared connection
NewConn_shared == SharedConn

\* await this.client.duplicate(): a connection of its own
NewConn == Len(subs) + 1

\* a wrapper that hands the callback the logical channel name
CallbackArgs_logical(msg) == [message |-> msg.m, channel |-> msg.chan]

\* onMessage(message, channel) as the client calls it for a pushed message:
\* the wrapper passed onMessage on as it got it, so the channel is the
\* one the store knows
CallbackArgs(msg) == [message |-> msg.m, channel |-> msg.pchan]

\* async subscribe(channel, callback) {
\*   return redis.subscribe(addPrefix(channel), callback) }
\* up to RedisWrapper.subscribe having opened its duplicate connection:
\*   const subscriber = await this.client.duplicate()
\* (subscribing through a closed shared connection is not modelled)
SubscribeStart(ns, channel) ==
    LET pchan == addPrefix(Prefix(ns), channel) IN
    /\ connOpen
    /\ Len(subs) < MaxSubs
    /\ subs' = Append(subs, [ns |-> ns, chan |-> channel, pchan |-> pchan,
                             conn |-> NewConn,
                             st |-> "duplicated", open |-> TRUE,
                             done |-> FALSE,
                             pending |-> {}, inbox |-> {}, got |-> {}])
    /\ UNCHANGED <<store, call, ret, connOpen, disposed, multi>>
    /\ Call

\* await subscriber.subscribe(channel, onMessage); return async () => ...
\* the store registers the channel and the caller gets the release function
SubscribeDone(i) ==
    /\ i \in 1..Len(subs)
    /\ subs[i].st = "duplicated"
    /\ subs' = SubsWith(i, [subs[i] EXCEPT !.st = "subscribed"])
    /\ ret' = [op |-> "subscribe", ns |-> subs[i].ns, key |-> subs[i].chan,
               sent |-> <<subs[i].pchan>>, err |-> FALSE, val |-> i,
               fwd |-> [err |-> FALSE, val |-> i]]
    /\ UNCHANGED <<store, call, connOpen, disposed, budget, multi>>

\* the subscriptions the store pushes a message on physical channel to
Receivers(pchan) ==
    {i \in 1..Len(subs) : subs[i].st = "subscribed" /\ subs[i].pchan = pchan}

\* async publish(channel, message) {
\*   return redis.publish(addPrefix(channel), message) }
\* the store pushes the message, with the physical channel name, to the
\* connection of every subscriber of that channel and replies their number
Publish(ns, channel, m) ==
    LET pchan == addPrefix(Prefix(ns), channel)
        msg   == [m |-> m, by |-> ns, chan |-> channel, pchan |-> pchan]
        fwd   == IF Usable
                 THEN [err |-> FALSE, val |-> Cardinality(Receivers(pchan))]
                 ELSE [err |-> TRUE, val |-> Rejection]
        out   == Return(fwd)
    IN
    /\ subs' = IF Usable
               THEN [i \in 1..Len(subs) |->
                       IF i \in Receivers(pchan)
                       THEN [subs[i] EXCEPT !.pending = @ \cup {msg}]
                       ELSE subs[i]]
               ELSE subs
    /\ ret' = [op |-> "publish", ns |-> ns, key |-> channel,
               sent |-> <<pchan>>, err |-> out.err, val |-> out.val,
               fwd |-> fwd]
    /\ UNCHANGED <<store, call, connOpen, disposed, multi>>
    /\ Call

\* a pushed message arrives on the dedicated connection and the callback
\* is called with (message, channel)
Deliver(i) ==
    /\ i \in 1..Len(subs)
    /\ subs[i].open
    /\ subs[i].pending # {}
    /\ \E msg \in subs[i].pending :
          subs' = SubsWith(i, [subs[i] EXCEPT !.pending = @ \ {msg},
                                              !.inbox = @ \cup {msg},
                                              !.got = @ \cup
                                                  {CallbackArgs(msg)}])
    /\ UNCHANGED <<store, call, ret, connOpen, disposed, budget, multi>>

\* what can go wrong while the release function runs: nothing, the
\* UNSUBSCRIBE is failed by the store or the network, or close() throws
Failures == {"none", "unsubscribe", "close"}

\* a release function that lets the error of its try block out
Catch_rethrow(thrown) == [err |-> thrown, val |-> NULL]

\* catch {}: whatever the try block threw, the function completes normally
Catch(thrown) == [err |-> FALSE, val |-> NULL]

\* the release function:
\*   try { await subscriber.unsubscribe(channel); subscriber.close() } catch {}
\* The reply to UNSUBSCRIBE arrives after every message pushed before it.
\* unsubscribe rejects on a closed connection (as on a second invocation),
\* and when the store or the network fails it; the catch swallows the
\* rejection and close() is skipped.  A close() that throws is swallowed
\* too and leaves the connection open.
Release(i, fails) ==
    LET unsub  == subs[i].open /\ fails # "unsubscribe"
        thrown == ~subs[i].open \/ fails # "none"
        out    == Catch(thrown)
    IN
    /\ i \in 1..Len(subs)
    /\ subs[i].st \in {"subscribed", "released"}
    /\ subs' = SubsWith(i,
                 IF unsub
                 THEN [subs[i] EXCEPT !.st = "released",
                                      !.open = (fails = "close"),
                                      !.done = TRUE,
                                      !.pending = {},
                                      !.inbox = @ \cup subs[i].pending,
                                      !.got = @ \cup
                                        {CallbackArgs(msg) :
                                           msg \in subs[i].pending}]
                 ELSE [subs[i] EXCEPT !.done = TRUE])
    /\ ret' = [op |-> "release", ns |-> subs[i].ns, key |-> subs[i].chan,
               sent |-> <<subs[i].pchan>>, err |-> out.err, val |-> out.val,
               unsub |-> unsub, thrown |-> thrown,
               again |-> subs[i].done]
    /\ UNCHANGED <<store, call, connOpen, disposed, multi>>
    /\ Call

(***************************************************************************)
(* Cleanup.                                                                *)
(***************************************************************************)
\* a dispose that closes the connection it was given
Dispose_closing(ns) ==
    /\ ret' = [op |-> "asyncDispose", ns |-> ns, key |-> <<>>,
               sent |-> <<>>, err |-> FALSE, val |-> NULL]
    /\ disposed' = disposed \cup {ns}
    /\ connOpen' = FALSE
    /\ UNCHANGED <<store, call, subs, multi>>
    /\ Call

\* async [Symbol.asyncDispose]() { /* nothing */ }
Dispose(ns) ==
    /\ ret' = [op |-> "asyncDispose", ns |-> ns, key |-> <<>>,
               sent |-> <<>>, err |-> FALSE, val |-> NULL]
    /\ disposed' = disposed \cup {ns}
    /\ UNCHANGED <<store, call, connOpen, subs, multi>>
    /\ Call

\* RedisWrapper.close(): this.client.close()
Close ==
    /\ connOpen
    /\ connOpen' = FALSE
    /\ ret' = [op |-> "close", ns |-> DIRECT, key |-> <<>>,
               sent |-> <<>>, err |-> FALSE, val |-> NULL]
    /\ UNCHANGED <<store, call, subs, disposed, multi>>
    /\ Call

\* one second passes in the store: the remaining time of every key with an
\* expiry goes down by one, and a key whose time is over is removed
Tick ==
    /\ \E pk \in DOMAIN store : store[pk].ttl > 0
    /\ store' = [pk \in {k \in DOMAIN store : store[k].ttl # 1} |->
                    [store[pk] EXCEPT !.ttl = IF @ > 1 THEN @ - 1 ELSE @]]
    /\ UNCHANGED <<call, ret, connOpen, subs, disposed, budget, multi>>

(***************************************************************************)
(* Specifications.                                                         *)
(***************************************************************************)
\* the logical channels the callers use
Channels == Keys

\* the values the callers store and the options of a set whose key expires
TextOne      == JsString(Text(1))
TextValues   == {JsString(Text(v)) : v \in Payloads}
SoonOpts     == [NoOpts EXCEPT !.EX = 1]
ExpiringOpts == {[NoOpts EXCEPT !.EX = s] : s \in 1..MaxTTL}

\* get / set / del through the wrappers and reads on the shared connection
NextKV ==
    \/ \E ns \in Namespaces, k \in Keys, val \in TextValues :
          Set(ns, k, val, NoOpts)
    \/ \E ns \in Namespaces, k \in Keys : Get(ns, k)
    \/ \E ns \in Namespaces, ks \in KeyLists : Del(ns, ks)
    \/ \E pk \in PhysKeys : DirectGet(pk)

SpecKV == Init /\ [][NextKV]_vars

\* scanAll and clearNamespace running while other callers set and delete
NextScan ==
    \/ \E ns \in Namespaces, k \in Keys : Set(ns, k, TextOne, NoOpts)
    \/ \E ns \in Namespaces, k \in Keys : Del(ns, <<k>>)
    \/ \E ns \in Namespaces, p \in Patterns : ScanAllStart(ns, p)
    \/ \E ns \in Namespaces : ClearStart(ns)
    \/ ScanRound
    \/ ClearDel

SpecScan == Init /\ [][NextScan]_vars

\* subscribers and publishers of several namespaces
NextPubSub ==
    \/ \E ns \in {NsA, NsAB} : SubscribeStart(ns, KeyK)
    \/ \E i \in 1..MaxSubs : SubscribeDone(i)
    \/ \E ns \in {NsA, NsAB}, c \in Channels : Publish(ns, c, 1)
    \/ \E i \in 1..MaxSubs : Deliver(i)
    \/ \E i \in 1..MaxSubs : Release(i, "none")

SpecPubSub == Init /\ [][NextPubSub]_vars

\* subscriptions whose release may fail, next to commands on the shared
\* connection
NextConn ==
    \/ \E ns \in {NsA, NsAB} : SubscribeStart(ns, KeyK)
    \/ \E i \in 1..MaxSubs : SubscribeDone(i)
    \/ Publish(NsA, KeyK, 1)
    \/ \E i \in 1..MaxSubs : Deliver(i)
    \/ \E i \in 1..MaxSubs, fails \in Failures : Release(i, fails)
    \/ Get(NsA, KeyK)

SpecConn == Init /\ [][NextConn]_vars

\* wrappers being used and disposed, and the owner closing the connection
NextDispose ==
    \/ \E ns \in Namespaces : Set(ns, KeyK, TextOne, NoOpts)
    \/ \E ns \in Namespaces : Get(ns, KeyK)
    \/ \E ns \in Namespaces : Dispose(ns)
    \/ Close

SpecDispose == Init /\ [][NextDispose]_vars

\* the arguments of the calls that exercise every operation of a wrapper
OpsNamespaces == Namespaces
OpsKeys       == <<KeyK, KeyBK>>
OpsValue      == JsString(Text(1))
OpsNumber     == JsNumber(1)
OpsFields     == <<"f", "g">>
OpsOptions    == {NoOpts, [NoOpts EXCEPT !.EX = MaxTTL]}
OpsObject     == JsObject(1)
OpsData       == [k \in Range(OpsKeys) |-> OpsValue]
OpsHash       == [f \in Range(OpsFields) |-> OpsNumber]
OpsPair       == <<OpsValue, OpsNumber>>
OpsSingle     == <<OpsValue>>

\* every operation of the wrappers
NextOps ==
    \/ \E ns \in OpsNamespaces : Get(ns, KeyK)
    \/ \E ns \in OpsNamespaces, o \in OpsOptions : Set(ns, KeyK, OpsNumber, o)
    \/ \E ns \in OpsNamespaces : Del(ns, OpsKeys)
    \/ \E ns \in OpsNamespaces : Exists(ns, OpsKeys)
    \/ \E ns \in OpsNamespaces : GetJSON(ns, KeyK)
    \/ \E ns \in OpsNamespaces : SetJSON(ns, KeyK, OpsObject, NoOpts)
    \/ \E ns \in OpsNamespaces : MGet(ns, OpsKeys)
    \/ \E ns \in OpsNamespaces : MSet(ns, OpsData)
    \/ \E ns \in OpsNamespaces : HGet(ns, KeyK, "f")
    \/ \E ns \in OpsNamespaces : HSet(ns, KeyK, "f", OpsValue)
    \/ \E ns \in OpsNamespaces : HMGet(ns, KeyK, OpsFields)
    \/ \E ns \in OpsNamespaces : HMSet(ns, KeyK, OpsHash)
    \/ \E ns \in OpsNamespaces : HGetAll(ns, KeyK)
    \/ \E ns \in OpsNamespaces : Incr(ns, KeyK)
    \/ \E ns \in OpsNamespaces : Decr(ns, KeyK)
    \/ \E ns \in OpsNamespaces : Ttl(ns, KeyK)
    \/ \E ns \in OpsNamespaces : SetTTL(ns, KeyK, MaxTTL)
    \/ \E ns \in OpsNamespaces : Expire(ns, KeyK, MaxTTL)
    \/ \E ns \in OpsNamespaces : ScanAllStart(ns, <<"*">>)
    \/ ScanRound
    \/ \E ns \in OpsNamespaces : SubscribeStart(ns, KeyK)
    \/ \E i \in 1..MaxSubs : SubscribeDone(i)
    \/ \E ns \in OpsNamespaces : Publish(ns, KeyK, 1)
    \/ \E ns \in OpsNamespaces : LPush(ns, KeyK, OpsPair)
    \/ \E ns \in OpsNamespaces : RPushW(ns, KeyK, OpsSingle)
    \/ \E ns \in OpsNamespaces : LRange(ns, KeyK, 0, -1)
    \/ \E ns \in OpsNamespaces : LPop(ns, KeyK)
    \/ \E ns \in OpsNamespaces : RPopW(ns, KeyK)
    \/ \E ns \in OpsNamespaces : SAdd(ns, KeyK, OpsPair)
    \/ \E ns \in OpsNamespaces : SRem(ns, KeyK, OpsSingle)
    \/ \E ns \in OpsNamespaces : SMembers(ns, KeyK)

SpecOps == InitOps /\ [][NextOps]_vars

\* the same calls and clearNamespace, on a connection that its owner may
\* close at any moment
NextErr ==
    \/ NextOps
    \/ Close
    \/ \E ns \in {NsA, NsAB} : ClearStart(ns)
    \/ ClearDel

SpecErr == InitOps /\ [][NextErr]_vars

\* keys that come and go in two namespaces, and exists on one or two keys
NextExists ==
    \/ \E ns \in {NsA, NsAB}, k \in Keys : Set(ns, k, OpsValue, NoOpts)
    \/ \E ns \in {NsA, NsAB}, k \in Keys : Del(ns, <<k>>)
    \/ \E ns \in {NsA, NsAB}, ks \in KeyLists : Exists(ns, ks)

SpecExists == Init /\ [][NextExists]_vars

\* scans through the wrappers whose result is handed back to del
NextScanDel ==
    \/ \E ns \in Namespaces, k \in Keys :
          Set(ns, k, TextOne, NoOpts)
    \/ \E ns \in Namespaces, p \in Patterns : ScanAllStart(ns, p)
    \/ ScanRound
    \/ \E ns \in Namespaces : DelScanned(ns)

SpecScanDel == Init /\ [][NextScanDel]_vars

\* scanAll and clearNamespace round by round, while other callers write,
\* delete and let keys expire and the owner may close the connection
NextRounds ==
    \/ \E ns \in {NsA, NsGlob}, k \in Keys :
          Set(ns, k, TextOne, NoOpts)
    \/ Set(NsA, KeyK, TextOne, SoonOpts)
    \/ \E k \in Keys : Del(NsA, <<k>>)
    \/ \E ns \in {NsA, NsGlob} : ScanAllStart(ns, <<"*">>)
    \/ \E ns \in {NsA, NsGlob} : ClearStart(ns)
    \/ ScanRound
    \/ ClearDel
    \/ Tick
    \/ Close

SpecRounds == Init /\ [][NextRounds]_vars

\* a RedisWrapper of another process, on a connection of its own, sets a
\* key of the store (with a time to live when seconds > 0)
OtherSet(ns, key, seconds) ==
    LET pk == addPrefix(Prefix(ns), key) IN
    /\ store' = redis_set(store, pk, TextOne,
                          [NoOpts EXCEPT !.EX = seconds], DIRECT, key).store
    /\ call' = Touch(call)
    /\ UNCHANGED <<ret, connOpen, subs, disposed, budget, multi>>

\* the cursor loop of scanAll alone, over a store that another process
\* fills and whose keys expire; the event loop resumes the awaiting scanAll
\* once the reply of its SCAN is in
NextLoop ==
    \/ \E k \in Keys : OtherSet(NsA, k, 0)
    \/ OtherSet(NsAB, KeyK, 1)
    \/ \E ns \in {NsA, NsAB} : ScanAllStart(ns, <<"*">>)
    \/ ScanRound
    \/ Tick

SpecLoop == Init /\ [][NextLoop]_vars /\ WF_vars(ScanRound)

\* callers increment a counter of the same logical name through wrappers
\* of three namespaces, in any order, and read it
NextIncr ==
    \/ \E ns \in Namespaces : Incr(ns, KeyK)
    \/ \E ns \in Namespaces : Get(ns, KeyK)

SpecIncr == Init /\ [][NextIncr]_vars

\* wrappers are constructed and used while another process writes the
\* store behind them
NextWrap ==
    \/ \E ns \in Namespaces : createNamespacedRedis(ns)
    \/ \E ns \in Namespaces : Incr(ns, KeyK)
    \/ \E ns \in Namespaces : Get(ns, KeyK)
    \/ \E val \in TextValues : Set(NsA, KeyK, val, NoOpts)
    \/ OtherSet(NsA, KeyK, 0)

SpecWrap == Init /\ [][NextWrap]_vars

\* transactions on the shared connection while a wrapper sends commands
\* on it
NextTx ==
    \/ \E commands \in Transactions : TransactionStart(commands)
    \/ TransactionQueue
    \/ TransactionExec
    \/ \E val \in TextValues : Set(NsA, KeyK, val, NoOpts)
    \/ Get(NsA, KeyK)
    \/ DirectGet(TxKey)

SpecTx == InitOps /\ [][NextTx]_vars

\* the field names of the hashes
Fields == {"f", "g"}

\* hashes with the same logical key in two namespaces, read through the
\* wrappers and on the shared connection
NextHash ==
    \/ \E ns \in {NsA, NsAB}, f \in Fields, val \in TextValues :
          HSet(ns, KeyK, f, val)
    \/ \E ns \in {NsA, NsAB} :
          HMSet(ns, KeyK, OpsHash)
    \/ \E ns \in {NsA, NsAB}, f \in Fields : HGet(ns, KeyK, f)
    \/ \E ns \in {NsA, NsAB} : HGetAll(ns, KeyK)
    \/ \E ns \in {NsA, NsAB}, f \in Fields :
          DirectHGet(Prefix(ns) \o KeyK, f)

SpecHash == Init /\ [][NextHash]_vars

\* the number of seconds of an expiry
Seconds == 1..MaxTTL

\* keys with and without expiry in two namespaces, while time passes
NextTtl ==
    \/ \E ns \in {NsA, NsAB} : Set(ns, KeyK, OpsValue, NoOpts)
    \/ \E ns \in {NsA, NsAB}, o \in ExpiringOpts :
          Set(ns, KeyK, OpsNumber, o)
    \/ \E ns \in {NsA, NsAB}, s \in Seconds : Expire(ns, KeyK, s)
    \/ \E ns \in {NsA, NsAB}, s \in Seconds : SetTTL(ns, KeyK, s)
    \/ \E ns \in {NsA, NsAB} : Ttl(ns, KeyK)
    \/ Tick

SpecTtl == Init /\ [][NextTtl]_vars

\* every namespace string of at most MaxNsLen characters, made of a letter
\* and the separator
NsAlphabet == {"a", ":"}
NsStrings  == UNION {[1..n -> NsAlphabet] : n \in 0..MaxNsLen}

\* wrappers and clearNamespace over every namespace string, in runs of at
\* most MaxCalls calls
NextNs ==
    \/ \E ns \in NsStrings : Set(ns, KeyK, TextOne, NoOpts)
    \/ \E ns \in NsStrings : Get(ns, KeyK)
    \/ \E ns \in NsStrings : DirectGet(ns \o <<":">> \o KeyK)
    \/ \E ns \in NsStrings : ClearStart(ns)
    \/ ScanRound
    \/ ClearDel

SpecNs == InitOps /\ [][NextNs]_vars


(***************************************************************************)
(* Vocabulary of the properties.                                           *)
(***************************************************************************)
\* the pattern characters of the model's alphabet
HasGlob(s) == \E i \in 1..Len(s) : s[i] \in {"*", "?"}

\* one prefix is an initial part of the other
Comparable(p, q) == StartsWith(p, q) \/ StartsWith(q, p)

\* the value was written through a wrapper of another namespace than ns
ForeignTo(val, ns) == val.by # DIRECT /\ Prefix(val.by) # Prefix(ns)

\* steps in which a call returns to its caller
ScanAllReturns == call.kind = "scanAll" /\ call'.kind = "none"
ClearReturns   == call.kind = "clear" /\ call'.kind = "none"

\* the physical key that two wrappers spell differently
PhysABK == <<"a", ":", "b", ":", "k">>

\* the logical keys of namespace ns that exist in st and match pattern
LogicalMatches(st, ns, pattern) ==
    {Slice(pk, Len(ns) + 1) :
        pk \in {x \in DOMAIN st :
                  /\ StartsWith(x, ns \o <<":">>)
                  /\ GlobMatch(pattern, Slice(x, Len(ns) + 1))}}

(***************************************************************************)
(* C1  Isolation of get/set/del between wrappers of distinct namespaces.   *)
(***************************************************************************)
\* C1: a get through a wrapper never returns a value that a wrapper of
\* another namespace wrote under the same logical key, and a set or del of
\* key K through one wrapper leaves what K reads as under every wrapper of
\* another namespace unchanged.
C1_GetIsolated ==
    (ret.op = "get" /\ ret.ns # DIRECT /\ ~ret.err /\ ret.val # NULL)
        => ~(ForeignTo(ret.val, ret.ns) /\ ret.val.key = ret.key)

C1_WriteFrame ==
    \A A \in Namespaces, B \in Namespaces, K \in Keys :
        (/\ Prefix(A) # Prefix(B)
         /\ ret'.ns = B
         /\ \/ ret'.op = "set" /\ ret'.key = K
            \/ ret'.op = "del" /\ Range(ret'.key) = {K})
        => GetKey(store', Prefix(A) \o K) = GetKey(store, Prefix(A) \o K)

Thm_C1 == [](C1_GetIsolated) /\ [][C1_WriteFrame]_vars

\* both wrappers wrote K, and the get through "a:b" returned its own value
\* while the value of "a" is still in place
Wit_C1 ==
    /\ ret.op = "get" /\ ret.ns = NsAB /\ ret.key = KeyK
    /\ ret.val # NULL /\ ret.val.by = NsAB
    /\ GetKey(store, <<"a", ":", "k">>) # NULL
    /\ GetKey(store, <<"a", ":", "k">>).by = NsA

(***************************************************************************)
(* C2  Every forwarded key, pattern and channel carries the prefix.        *)
(***************************************************************************)
\* the operations that take a list or a map of keys
Variadic == {"del", "exists", "mget", "mset"}

\* the call a wrapper operation forwarded carried one key argument for each
\* key it was given, each beginning with the wrapper's prefix
C2_Sent ==
    (ret.op # "none" /\ ret.ns # DIRECT) =>
        /\ \A i \in 1..Len(ret.sent) : StartsWith(ret.sent[i], Prefix(ret.ns))
        /\ Len(ret.sent) = IF ret.op \in Variadic THEN Len(ret.key) ELSE 1

\* the pattern of the scan in flight begins with the wrapper's prefix
C2_Pattern ==
    call.kind = "scanAll" => StartsWith(call.pattern, Prefix(call.ns))

\* the channel of every subscription begins with the wrapper's prefix
C2_Channel ==
    \A i \in 1..Len(subs) : StartsWith(subs[i].pchan, Prefix(subs[i].ns))

\* C2: every call that a wrapper operation (get, set, del, exists, getJSON,
\* setJSON, mget, mset, hget, hset, hmget, hmset, hgetAll, incr, decr, ttl,
\* setTTL, expire, scanAll, subscribe, publish, lpush, rpush, lrange, lpop,
\* rpop, sadd, srem, smembers) forwards to the shared connection carries
\* only key, pattern and channel arguments that begin with the wrapper's
\* normalized prefix, every key of a variadic list and of an mset map
\* included.
Thm_C2 == [](C2_Sent /\ C2_Pattern /\ C2_Channel)

\* an mset of two keys through "a:b" was forwarded with both keys prefixed
Wit_C2 ==
    /\ ret.op = "mset" /\ ret.ns = NsAB /\ ~ret.err
    /\ Range(ret.sent) = {PhysABK, <<"a", ":", "b", ":", "b", ":", "k">>}

(***************************************************************************)
(* C3  The physical key is the plain concatenation prefix + key.           *)
(***************************************************************************)
\* what a get on the shared connection returns at a physical key was
\* written through a wrapper whose namespace, a colon and the logical key
\* spell that physical key
C3_DirectRead ==
    (ret.op = "get" /\ ret.ns = DIRECT /\ ~ret.err /\ ret.val # NULL)
        => ret.key = ret.val.by \o <<":">> \o ret.val.key

\* a set through a wrapper is in the store at namespace + ":" + key
C3_SetLands ==
    (ret'.op = "set" /\ ~ret'.err)
        => LET val == GetKey(store', ret'.ns \o <<":">> \o ret'.key) IN
           val # NULL /\ val.by = ret'.ns /\ val.key = ret'.key

\* distinct logical keys of one namespace have distinct physical keys
C3_Injective ==
    \A ns \in Namespaces, K1 \in Keys, K2 \in Keys :
        K1 # K2 => addPrefix(Prefix(ns), K1) # addPrefix(Prefix(ns), K2)

\* namespace "a" with key "b:k" and namespace "a:b" with key "k" address
\* the physical key "a:b:k"
C3_Alias ==
    (ret.op = "get" /\ ((ret.ns = NsA /\ ret.key = KeyBK)
                          \/ (ret.ns = NsAB /\ ret.key = KeyK)))
        => ret.sent = <<PhysABK>>

\* C3: the physical key of logical key K under namespace N is prefix(N)
\* followed by K, unhashed and unescaped: a set through the wrapper is read
\* back by a direct get of that key, distinct logical keys of a namespace
\* get distinct physical keys, and ("a", "b:k") and ("a:b", "k") are the
\* same physical key "a:b:k".
Thm_C3 ==
    [](C3_DirectRead /\ C3_Injective /\ C3_Alias) /\ [][C3_SetLands]_vars

\* a direct get of "a:b:k" returned what wrapper "a" wrote under "b:k"
Wit_C3 ==
    /\ ret.op = "get" /\ ret.ns = DIRECT /\ ret.key = PhysABK
    /\ ret.val # NULL /\ ret.val.by = NsA /\ ret.val.key = KeyBK

(***************************************************************************)
(* C4  scanAll returns the logical keys of the namespace that match.       *)
(***************************************************************************)
\* the statement of C4 for the call that returns in this step
C4_Exact ==
    Range(ret'.val) = LogicalMatches(store, call.ns, call.arg)

\* C4 over all namespaces: for every namespace and pattern, a scanAll
\* during which nobody else changed the store returns exactly the logical
\* keys K with prefix + K in the store and K matching the pattern
Orig_C4 == [][(ScanAllReturns /\ ~call.touched) => C4_Exact]_vars

\* C4: for every namespace that contains no pattern character of the store
\* and every pattern, a scanAll during which nobody else changed the store
\* returns exactly the logical keys K with prefix + K in the store and K
\* matching the pattern, each without the prefix
Thm_C4 ==
    [][(ScanAllReturns /\ ~call.touched /\ ~HasGlob(call.ns)) => C4_Exact]_vars

\* scanAll("b:*") through "a" returned exactly "b:k" while "a:k" and
\* "a:b:k" were both in the store
Wit_C4 ==
    /\ ret.op = "scanAll" /\ ret.ns = NsA /\ ret.key = <<"b", ":", "*">>
    /\ ~ret.touched
    /\ ret.val = <<KeyBK>>
    /\ {<<"a", ":", "k">>, PhysABK} \subseteq DOMAIN store

(***************************************************************************)
(* C5  scanAll never returns the keys of another namespace.                *)
(***************************************************************************)
\* no key the scan returned was written through a wrapper of Others
C5_NoForeign(Others) ==
    \A i \in 1..Len(ret'.raw) :
        LET pk == ret'.raw[i] IN
        (pk \in DOMAIN store /\ store[pk].by # DIRECT)
            => store[pk].by \notin Others

\* no returned string begins with the namespace prefix
C5_NoPrefixLeft ==
    \A i \in 1..Len(ret'.val) : ~StartsWith(ret'.val[i], Prefix(call.ns))

\* every returned string is the scanned key with the prefix removed
C5_Stripped ==
    \A i \in 1..Len(ret'.val) : Prefix(call.ns) \o ret'.val[i] = ret'.raw[i]

C7_Cleared ==
    /\ ret'.val = call.held
    /\ KeysUnder(store', call.ns \o <<":">>) = {}
    /\ ScanLoop(store', 0, addPrefix(Prefix(call.ns), <<"*">>), <<>>) = <<>>

\* C7 over all namespaces: when A holds exactly N keys and nobody else
\* touches the store during the call, clearNamespace returns N and leaves
\* no key of A
Orig_C7 == [][(ClearReturns /\ ~call.touched) => C7_Cleared]_vars

\* C7: when A contains no pattern character, holds exactly N keys
\* and nobody else touches the store during the call, clearNamespace
\* returns N, and afterwards A.scanAll("*") is empty and no key of A is left
Thm_C7 ==
    [][(ClearReturns /\ ~call.touched /\ ~HasGlob(call.ns)) => C7_Cleared]_vars

\* clearNamespace("a") returned 2 after deleting "a:k" and "a:b:k"
Wit_C7 ==
    /\ ret.op = "clearNamespace" /\ ret.ns = NsA /\ ~ret.touched
    /\ ret.val = 2 /\ Range(ret.raw) = {<<"a", ":", "k">>, PhysABK}
    /\ KeysUnder(store, <<"a", ":">>) = {}

(***************************************************************************)
(* C8  clearNamespace leaves the keys of other namespaces alone.           *)
(***************************************************************************)
\* a step taken by clearNamespace itself
ClearStep ==
    \/ call.kind = "none" /\ call'.kind = "clear"
    \/ /\ call.kind = "clear"
       /\ \/ call'.kind = "none"
          \/ call'.cursor # call.cursor
          \/ call'.pc # call.pc

\* the namespace the stepping clearNamespace works on
ClearNs == IF call.kind = "clear" THEN call.ns ELSE call'.ns

\* every key written through a wrapper of Others is the same before and
\* after the step
C8_Untouched(Others) ==
    \A pk \in DOMAIN store :
        (store[pk].by # DIRECT /\ store[pk].by \in Others)
            => pk \in DOMAIN store' /\ store'[pk] = store[pk]

\* C8 over all namespaces: clearNamespace(A) leaves unchanged every key
\* written through the wrapper of any namespace B distinct from A
Orig_C8 ==
    [][ClearStep =>
         C8_Untouched({B \in Namespaces : Prefix(B) # Prefix(ClearNs)})]_vars

\* C8: when A contains no pattern character, clearNamespace(A)
\* leaves unchanged every key written through the wrapper of a namespace B
\* such that neither normalized prefix is an initial part of the other
Thm_C8 ==
    [][(ClearStep /\ ~HasGlob(ClearNs)) =>
         C8_Untouched({B \in Namespaces :
                         ~Comparable(Prefix(B), Prefix(ClearNs))})]_vars

\* clearNamespace("a") deleted "a:k" and the key "a*:k" of the wrapper of
\* "a*" is still there
Wit_C8 ==
    /\ ret.op = "clearNamespace" /\ ret.ns = NsA /\ ret.val >= 1
    /\ <<"a", ":", "k">> \in Range(ret.raw)
    /\ <<"a", "*", ":", "k">> \in DOMAIN store
    /\ store[<<"a", "*", ":", "k">>].by = NsGlob

(***************************************************************************)
(* C9  clearNamespace of a namespace without keys.                         *)
(***************************************************************************)
\* C9: when the scan of clearNamespace finds no key, the call returns 0,
\* has sent no del to the shared connection and the store is unchanged.
Thm_C9 ==
    [][(ClearReturns /\ ret'.raw = <<>>) =>
         /\ ret'.val = 0
         /\ ret'.dels = 0
         /\ call.pc = "scan"
         /\ store' = store]_vars

\* clearNamespace("a:b") returned 0 without a del while other namespaces
\* hold keys
Wit_C9 ==
    /\ ret.op = "clearNamespace" /\ ret.ns = NsAB
    /\ ret.raw = <<>> /\ ret.val = 0 /\ ret.dels = 0
    /\ DOMAIN store # {}

(***************************************************************************)
(* C6  Publish / subscribe isolation.                                      *)
(***************************************************************************)
\* the messages a subscription has been sent
Received(sub) == sub.pending \cup sub.inbox

\* no subscriber is sent a message that was published on its logical
\* channel through a wrapper of another namespace
C6_Isolated ==
    \A i \in 1..Len(subs) : \A msg \in Received(subs[i]) :
        msg.chan = subs[i].chan => Prefix(msg.by) = Prefix(subs[i].ns)

\* a message published through a wrapper on channel C is sent to every
\* subscriber registered through a wrapper of that namespace on C
C6_Handed ==
    (ret'.op = "publish" /\ ~ret'.err) =>
        \A i \in 1..Len(subs) :
            (/\ subs[i].st = "subscribed"
             /\ Prefix(subs[i].ns) = Prefix(ret'.ns)
             /\ subs[i].chan = ret'.key)
            => \E msg \in Received(subs'[i]) :
                  msg.by = ret'.ns /\ msg.chan = ret'.key

\* C6: with subscribers of distinct namespaces A and B on the same logical
\* channel C, what A publishes on C reaches A's subscriber and never B's,
\* and what B publishes reaches B's subscriber and never A's.
Thm_C6 == [](C6_Isolated) /\ [][C6_Handed]_vars

\* the subscribers of "a" and of "a:b" on channel "k" each got the message
\* of their own namespace, and only that one
Wit_C6 ==
    /\ Len(subs) = 2
    /\ subs[1].ns = NsA /\ subs[1].chan = KeyK
    /\ subs[2].ns = NsAB /\ subs[2].chan = KeyK
    /\ {msg.by : msg \in subs[1].inbox} = {NsA}
    /\ {msg.by : msg \in subs[2].inbox} = {NsAB}

(***************************************************************************)
(* C10  Disposing a wrapper leaves the shared connection alone.            *)
(***************************************************************************)
\* a dispose changes neither the connection, nor the store, nor any call
\* or subscription
C10_Frame ==
    ret'.op = "asyncDispose" => UNCHANGED <<store, connOpen, subs, call>>

\* the shared connection is closed by RedisWrapper.close only
C10_OnlyClose == (connOpen /\ ~connOpen') => ret'.op = "close"

\* a get or set through a wrapper is rejected only when the connection has
\* been closed
C10_Usable == (ret.op \in {"get", "set"} /\ ret.err) => ~connOpen

\* C10: disposing a namespace wrapper never closes or changes the shared
\* connection; after any number of disposals the connection and every
\* wrapper on it stay usable and the stored keys are unchanged.
Thm_C10 == [](C10_Usable) /\ [][C10_Frame /\ C10_OnlyClose]_vars

\* every wrapper has been disposed and the wrapper of "a:b" still reads its
\* key, next to the key of the disposed wrapper of "a"
Wit_C10 ==
    /\ disposed = Namespaces
    /\ ret.op = "get" /\ ret.ns = NsAB /\ ~ret.err
    /\ ret.val # NULL /\ ret.val.by = NsAB
    /\ GetKey(store, <<"a", ":", "k">>) # NULL

(***************************************************************************)
(* C11  A trailing colon on the namespace changes nothing.                 *)
(***************************************************************************)
\* the namespace without the one colon it may end with
Bare(ns) == IF EndsWithColon(ns) THEN SubSeq(ns, 1, Len(ns) - 1) ELSE ns

\* ns is N or N + ":" for a namespace N that does not end with ":"
Plain(ns) == ~EndsWithColon(Bare(ns))

\* a get or set through the wrapper of N or of N + ":" is forwarded with
\* the physical key N + ":" + K
C11_SamePrefix ==
    (ret.op \in {"get", "set"} /\ ret.ns # DIRECT /\ Plain(ret.ns))
        => ret.sent = <<Bare(ret.ns) \o <<":">> \o ret.key>>

\* a get through the wrapper of N or of N + ":" returns what the store
\* holds at N + ":" + K
C11_ReadThrough ==
    (ret'.op = "get" /\ ret'.ns # DIRECT /\ Plain(ret'.ns)
       /\ ~ret'.err /\ budget' # budget)
        => ret'.val = GetKey(store, Bare(ret'.ns) \o <<":">> \o ret'.key)

\* clearNamespace(N) and clearNamespace(N + ":") remove the keys that begin
\* with N + ":" and no other key
C11_ClearSame ==
    (ClearReturns /\ ~call.touched /\ Plain(call.ns))
        => DOMAIN store' =
              DOMAIN store \ KeysUnder(store, Bare(call.ns) \o <<":">>)

\* C11: for every namespace N that does not end with ":", the wrappers of N
\* and of N + ":" use the same physical prefix N + ":" (a key written
\* through one is read through the other, at the physical key N + ":" + K),
\* and clearNamespace(N) and clearNamespace(N + ":") clear the same keys.
Thm_C11 ==
    [](C11_SamePrefix) /\ [][C11_ReadThrough /\ C11_ClearSame]_vars

\* the wrapper of "a:" read the key that the wrapper of "a" wrote
Wit_C11 ==
    /\ ret.op = "get" /\ ret.ns = <<"a", ":">> /\ ~ret.err
    /\ ret.val # NULL /\ ret.val.by = NsA
    /\ ret.sent = <<<<"a", ":", "k">>>>

(***************************************************************************)
(* C12  The normal form of the prefix.                                     *)
(***************************************************************************)
\* the prefix of a forwarded key: the key without the logical key it ends
\* with
PrefixSent == SubSeq(ret.sent[1], 1, Len(ret.sent[1]) - Len(ret.key))

\* s ends with one colon and not with two
OneColon(s) ==
    /\ EndsWithColon(s)
    /\ ~EndsWithColon(SubSeq(s, 1, Len(s) - 1))

\* C12: for every namespace string given to createNamespacedRedis or to
\* clearNamespace, the normalized prefix ends with exactly one ":" (never
\* none, never two or more), and the empty namespace gives the prefix ":".
Orig_C12 ==
    /\ (ret.op \in {"get", "set"} /\ ret.ns # DIRECT) =>
          /\ OneColon(PrefixSent)
          /\ ret.ns = <<>> => PrefixSent = <<":">>
    /\ call.kind = "clear" =>
          OneColon(SubSeq(call.pattern, 1, Len(call.pattern) - 1))

(***************************************************************************)
(* C13  Dedicated subscription connections.                                *)
(***************************************************************************)
\* the subscriptions whose channel is registered
LiveSubs == {i \in 1..Len(subs) : subs[i].st = "subscribed"}

\* the connection of every subscription is not the shared connection and
\* not the connection of another subscription
C13_Dedicated ==
    \A i \in 1..Len(subs) :
        /\ subs[i].conn # SharedConn
        /\ \A j \in 1..Len(subs) : subs[j].conn = subs[i].conn => j = i

\* a get or a publish made on the open shared connection while a
\* subscription is live is executed
C13_CommandsWork ==
    (/\ ret'.op \in {"get", "publish"}
     /\ connOpen
     /\ LiveSubs # {})
    => ~ret'.err

\* C13: every subscribe call opens its own duplicate connection, distinct
\* from the shared command connection and from the connection of every
\* other subscription; the shared connection is never in subscribed mode,
\* and ordinary commands on it keep working while subscriptions are live.
Thm_C13 ==
    [](C13_Dedicated /\ ~SubscribedMode) /\ [][C13_CommandsWork]_vars

\* with two live subscriptions, a get on the shared connection succeeded
\* after a publish reached a subscriber
Wit_C13 ==
    /\ Len(subs) = 2
    /\ LiveSubs = {1, 2}
    /\ subs[1].conn # subs[2].conn
    /\ ret.op = "get" /\ ~ret.err
    /\ \E i \in LiveSubs : subs[i].inbox # {}

(***************************************************************************)
(* C14  The release function.                                              *)
(***************************************************************************)
\* C14: whenever the release function of a subscription has been invoked
\* and has completed, the channel of the subscription is deregistered and
\* its dedicated connection is closed, so that no later message reaches the
\* callback and no connection stays open for the subscription.
Orig_C14 ==
    \A i \in 1..Len(subs) :
        subs[i].done => (subs[i].st # "subscribed" /\ ~subs[i].open)

(***************************************************************************)
(* C15  Errors pass through the namespace layer.                           *)
(***************************************************************************)
\* the operations of the wrapper that forward one call, and clearNamespace
ForwardingOps ==
    {"get", "set", "del", "exists", "getJSON", "setJSON", "mget", "mset",
     "hget", "hset", "hmget", "hmset", "hgetAll", "incr", "decr", "ttl",
     "setTTL", "expire", "scanAll", "subscribe", "publish", "lpush",
     "rpush", "lrange", "lpop", "rpop", "sadd", "srem", "smembers",
     "clearNamespace"}

\* the last call was made through the namespace layer
Layered == ret.op \in ForwardingOps /\ ret.ns # DIRECT

Phys(ns, key) == Prefix(ns) \o key

\* the physical keys of a list of logical keys
PhysAll(ns, keys) == [i \in 1..Len(keys) |-> Phys(ns, keys[i])]

\* the step has the result and the change of the store of a command issued
\* on the shared connection on which the store answers res
Same(res) ==
    /\ store' = (IF Usable THEN res.store ELSE store)
    /\ ret'.err = (~Usable \/ res.err)
    /\ IF ret'.err THEN ret'.val = (IF Usable THEN res.val ELSE Rejection)
                   ELSE ret'.val = res.val

\* the step returns from the operation op of the wrapper of ns
Did(op, ns) == ret'.op = op /\ ret'.ns = ns

\* the string, JSON and counter operations
C16_Strings ==
    \A ns \in OpsNamespaces :
        /\ (Did("get", ns) /\ Get(ns, KeyK)) => Same(RGet(store, Phys(ns, KeyK)))
        /\ \A o \in OpsOptions :
              (Did("set", ns) /\ Set(ns, KeyK, OpsNumber, o))
                 => Same(redis_set(store, Phys(ns, KeyK), OpsNumber, o,
                                   ns, KeyK))
        /\ (Did("getJSON", ns) /\ GetJSON(ns, KeyK)) => Same(redis_getJSON(store, Phys(ns, KeyK)))
        /\ (Did("setJSON", ns) /\ SetJSON(ns, KeyK, JsObject(1), NoOpts))
              => Same(redis_setJSON(store, Phys(ns, KeyK), JsObject(1),
                                    NoOpts, ns, KeyK))
        /\ (Did("incr", ns) /\ Incr(ns, KeyK)) => Same(RIncrBy(store, Phys(ns, KeyK), 1, ns, KeyK))
        /\ (Did("decr", ns) /\ Decr(ns, KeyK))
              => Same(RIncrBy(store, Phys(ns, KeyK), -1, ns, KeyK))

\* the operations on several keys
C16_Keys ==
    \A ns \in OpsNamespaces :
        /\ (Did("del", ns) /\ Del(ns, OpsKeys)) => Same(RDel(store, PhysAll(ns, OpsKeys)))
        /\ (Did("exists", ns) /\ Exists(ns, OpsKeys))
              => Same(redis_exists(store, PhysAll(ns, OpsKeys)))
        /\ (Did("mget", ns) /\ MGet(ns, OpsKeys)) => Same(RMGet(store, PhysAll(ns, OpsKeys)))
        /\ (Did("mset", ns) /\ MSet(ns, [k \in Range(OpsKeys) |-> OpsValue]))
              => Same(redis_mset(store,
                        [pk \in {Phys(ns, k) : k \in Range(OpsKeys)} |->
                            OpsValue],
                        ns,
                        [pk \in {Phys(ns, k) : k \in Range(OpsKeys)} |->
                            CHOOSE k \in Range(OpsKeys) : Phys(ns, k) = pk]))

\* the hash operations
C16_Hashes ==
    \A ns \in OpsNamespaces :
        /\ (Did("hget", ns) /\ HGet(ns, KeyK, "f")) => Same(RHGet(store, Phys(ns, KeyK), "f"))
        /\ (Did("hset", ns) /\ HSet(ns, KeyK, "f", OpsValue))
              => Same(redis_hset(store, Phys(ns, KeyK), "f", OpsValue,
                                 ns, KeyK))
        /\ (Did("hmget", ns) /\ HMGet(ns, KeyK, OpsFields))
              => Same(RHMGet(store, Phys(ns, KeyK), OpsFields))
        /\ (Did("hmset", ns) /\ HMSet(ns, KeyK, [f \in Range(OpsFields) |-> OpsNumber]))
              => Same(redis_hmset(store, Phys(ns, KeyK),
                        [f \in Range(OpsFields) |-> OpsNumber], ns, KeyK))
        /\ (Did("hgetAll", ns) /\ HGetAll(ns, KeyK)) => Same(RHGetAll(store, Phys(ns, KeyK)))

\* the expiry operations
C16_Expiry ==
    \A ns \in OpsNamespaces :
        /\ (Did("ttl", ns) /\ Ttl(ns, KeyK)) => Same(RTtl(store, Phys(ns, KeyK)))
        /\ (Did("setTTL", ns) /\ SetTTL(ns, KeyK, MaxTTL))
              => Same(redis_setTTL(store, Phys(ns, KeyK), MaxTTL))
        /\ (Did("expire", ns) /\ Expire(ns, KeyK, MaxTTL))
              => Same(RExpire(store, Phys(ns, KeyK), MaxTTL))

\* the list and set operations
C16_Collections ==
    \A ns \in OpsNamespaces :
        /\ (Did("lpush", ns) /\ LPush(ns, KeyK, <<OpsValue, OpsNumber>>))
              => Same(redis_push(store, Phys(ns, KeyK),
                                 <<OpsValue, OpsNumber>>, TRUE, ns, KeyK))
        /\ (Did("rpush", ns) /\ RPushW(ns, KeyK, <<OpsValue>>))
              => Same(redis_push(store, Phys(ns, KeyK), <<OpsValue>>,
                                 FALSE, ns, KeyK))
        /\ (Did("lrange", ns) /\ LRange(ns, KeyK, 0, -1))
              => Same(RLRange(store, Phys(ns, KeyK), 0, -1))
        /\ (Did("lpop", ns) /\ LPop(ns, KeyK)) => Same(RPop(store, Phys(ns, KeyK), TRUE))
        /\ (Did("rpop", ns) /\ RPopW(ns, KeyK)) => Same(RPop(store, Phys(ns, KeyK), FALSE))
        /\ (Did("sadd", ns) /\ SAdd(ns, KeyK, <<OpsValue, OpsNumber>>))
              => Same(redis_sadd(store, Phys(ns, KeyK),
                                 <<OpsValue, OpsNumber>>, ns, KeyK))
        /\ (Did("srem", ns) /\ SRem(ns, KeyK, <<OpsValue>>))
              => Same(redis_srem(store, Phys(ns, KeyK), <<OpsValue>>))
        /\ (Did("smembers", ns) /\ SMembers(ns, KeyK)) => Same(RSMembers(store, Phys(ns, KeyK)))

\* subscribe registers the callback on the channel prefix(N) + C, and
\* publish hands the message to the subscribers of prefix(N) + C and
\* returns their number
C16_PubSub ==
    \A ns \in OpsNamespaces :
        /\ SubscribeStart(ns, KeyK)
              => subs'[Len(subs')].pchan = Phys(ns, KeyK)
        /\ (Did("publish", ns) /\ Publish(ns, KeyK, 1)) =>
              /\ ret'.val = Cardinality(Receivers(Phys(ns, KeyK)))
              /\ \A i \in 1..Len(subs) :
                    subs'[i].pending \ subs[i].pending =
                       IF i \in Receivers(Phys(ns, KeyK))
                       THEN {[m |-> 1, by |-> ns, chan |-> KeyK,
                              pchan |-> Phys(ns, KeyK)]} \ subs[i].pending
                       ELSE {}

\* C16: for every wrapper operation other than scanAll, every logical key K
\* and all other arguments, wrapper(N).op(K, args) returns the same result
\* and changes the store as the identically-named op(prefix(N) + K, args)
\* issued on the shared connection does; field names, members, values,
\* options and messages are forwarded unmodified.
Thm_C16 ==
    [][/\ C16_Strings /\ C16_Keys /\ C16_Hashes /\ C16_Expiry
       /\ C16_Collections /\ C16_PubSub]_vars

\* an hmset through "a:b" stored both fields under the key "a:b:k"
Wit_C16 ==
    /\ ret.op = "hmset" /\ ret.ns = NsAB /\ ~ret.err
    /\ PhysABK \in DOMAIN store
    /\ store[PhysABK].t = "hash"
    /\ DOMAIN store[PhysABK].h = {"f", "g"}

(***************************************************************************)
(* C17  The sentinels of ttl.                                              *)
(***************************************************************************)
\* ttl(K) through the wrapper of a namespace answers for the physical key
\* prefix + K: -2 when it is absent, -1 when it has no expiry, and
\* otherwise a number between 1 and the seconds its expiry was set to
C17_Sentinels ==
    \A ns \in Namespaces :
        (Did("ttl", ns) /\ Ttl(ns, KeyK)) =>
            IF Phys(ns, KeyK) \notin DOMAIN store THEN ret'.val = -2
            ELSE IF store[Phys(ns, KeyK)].exp = 0 THEN ret'.val = -1
            ELSE ret'.val \in 1..store[Phys(ns, KeyK)].exp

\* expire(K, s), setTTL(K, s) and set with {EX: s} through the wrapper give
\* the physical key prefix + K, when it exists, an expiry of s seconds
C17_Expiry ==
    \A ns \in Namespaces, s \in Seconds :
        /\ (Did("expire", ns) /\ Expire(ns, KeyK, s))
              => IF Phys(ns, KeyK) \in DOMAIN store
                 THEN /\ Phys(ns, KeyK) \in DOMAIN store'
                      /\ store'[Phys(ns, KeyK)].exp = s
                      /\ ret'.val = 1
                 ELSE store' = store /\ ret'.val = 0
        /\ (Did("set", ns)
               /\ Set(ns, KeyK, OpsNumber, [NoOpts EXCEPT !.EX = s]))
              => /\ Phys(ns, KeyK) \in DOMAIN store'
                 /\ store'[Phys(ns, KeyK)].exp = s

\* C17: wrapper.ttl(K) returns -2 when the physical key prefix + K does not
\* exist, also when K exists under another namespace, -1 when it exists
\* without expiry, and a value in 1..s when it exists with the expiry that
\* wrapper.expire(K, s) or a set with {EX: s} gave it.
Thm_C17 == [][C17_Sentinels /\ C17_Expiry]_vars

\* the key "k" of "a" got an expiry of two seconds, one second passed and
\* ttl returned 1; the key "k" of "a:b" does not exist
Wit_C17 ==
    /\ ret.op = "ttl" /\ ret.ns = NsA /\ ~ret.err
    /\ ret.val = 1
    /\ <<"a", ":", "k">> \in DOMAIN store
    /\ store[<<"a", ":", "k">>].exp = MaxTTL
    /\ PhysABK \notin DOMAIN store

(***************************************************************************)
(* C18  Hash fields are not namespaced.                                    *)
(***************************************************************************)
\* hget(pk, field) issued on the shared connection in the state after the
\* step
HGetAfter(pk, field) == RHGet(store', pk, field).val

\* a field written with hset or hmset through a wrapper is read back on
\* the shared connection under prefix + K and the field name as given
C18_Written ==
    \A ns \in {NsA, NsAB} :
        /\ \A f \in Fields, v \in Payloads :
              (Did("hset", ns) /\ HSet(ns, KeyK, f, JsString(Text(v))))
                 => HGetAfter(Phys(ns, KeyK), f) = Text(v)
        /\ (Did("hmset", ns) /\ HMSet(ns, KeyK, [f \in Fields |-> OpsNumber]))
              => \A f \in Fields :
                    HGetAfter(Phys(ns, KeyK), f) = toString(OpsNumber)

\* hgetAll through a wrapper returns the fields of the hash at prefix + K
\* under the names they were written with
C18_Names ==
    \A ns \in {NsA, NsAB} :
        (Did("hgetAll", ns) /\ HGetAll(ns, KeyK))
           => /\ DOMAIN ret'.val \subseteq Fields
              /\ ret'.val = HashAt(store, Phys(ns, KeyK))

\* a call through the wrapper of one namespace leaves the hash with the
\* same logical key of the other namespace as it was
C18_Independent ==
    \A ns \in {NsA, NsAB}, other \in {NsA, NsAB} :
        (ret'.ns = ns /\ other # ns)
           => HashAt(store', Phys(other, KeyK)) =
                 HashAt(store, Phys(other, KeyK))

\* C18: hash operations prefix the hash key only and never the field names:
\* a field written with wrapper.hset(K, F, v) or wrapper.hmset(K, {F: v}) is
\* readable on the shared connection as hget(prefix + K, F) with F as given,
\* wrapper.hgetAll(K) returns field names without a prefix, and hashes with
\* the same logical key in different namespaces are independent.
Thm_C18 == [][C18_Written /\ C18_Names /\ C18_Independent]_vars

\* hget("a:k", "f") on the shared connection returned what the wrapper of
\* "a" wrote, while the hash "k" of "a:b" holds another value in "f"
Wit_C18 ==
    /\ ret.op = "hget" /\ ret.ns = DIRECT /\ ~ret.err
    /\ ret.key = <<"a", ":", "k">>
    /\ ret.val = Text(1)
    /\ "f" \in DOMAIN HashAt(store, PhysABK)
    /\ HashAt(store, PhysABK)["f"] = Text(2)

(***************************************************************************)
(* C19  exists looks at the first key.                                     *)
(***************************************************************************)
\* C19: wrapper.exists(k1, ..., kn) with n >= 1 returns true exactly when
\* the physical key prefix + k1 exists, whatever the state of k2..kn (true
\* for an existing k1 with a missing k2, false for a missing k1).
Thm_C19 ==
    [][\A ns \in {NsA, NsAB}, ks \in KeyLists :
          (Did("exists", ns) /\ Exists(ns, ks))
             => ret'.val = (Phys(ns, ks[1]) \in DOMAIN store)]_vars

\* exists(k1, k2) returned true with k1 present and k2 missing
Wit_C19 ==
    /\ ret.op = "exists" /\ ret.ns = NsA /\ ~ret.err
    /\ ret.val = TRUE
    /\ Len(ret.key) = 2
    /\ Phys(NsA, ret.key[1]) \in DOMAIN store
    /\ Phys(NsA, ret.key[2]) \notin DOMAIN store

(***************************************************************************)
(* C20  The keys scanAll returns go back to del.                           *)
(***************************************************************************)
\* the physical keys of the logical keys of ns that match pattern
Matching(st, ns, pattern) ==
    {pk \in DOMAIN st :
        /\ StartsWith(pk, Prefix(ns))
        /\ GlobMatch(pattern, Slice(pk, Len(Prefix(ns))))}

\* the step is the del of what scanAll returned to the wrapper of ns
DelsScanned(ns) ==
    /\ ret.op = "scanAll" /\ ret.ns = ns
    /\ ret'.op = "del" /\ ret'.ns = ns
    /\ DelScanned(ns)

\* the del removes the keys of ns that match the pattern and no other key
C20_Exact(ns) ==
    (DelsScanned(ns) /\ ~ret.touched)
        => DOMAIN store' = DOMAIN store \ Matching(store, ns, ret.key)

\* the del removes no key that was written through a wrapper of Others
C20_NoForeign(ns, Others) ==
    DelsScanned(ns)
        => \A pk \in DOMAIN store \ DOMAIN store' : store[pk].by \notin Others

\* the scanAll that follows the del, with the same pattern, finds nothing
C20_Empty(ns) ==
    (/\ ScanAllReturns /\ ~call.touched /\ call.ns = ns
     /\ ret.op = "del" /\ ret.ns = ns /\ ~ret.err
     /\ "scanned" \in DOMAIN ret
     /\ ret.clean
     /\ ret.scanned = call.arg)
        => ret'.val = <<>>

\* C20: for every namespace A and pattern P, A.del(...(await A.scanAll(P)))
\* deletes exactly the keys of A that matched P and no key of any other
\* namespace, and with no concurrent writer a following A.scanAll(P)
\* returns an empty list.
Orig_C20 ==
    [][\A ns \in Namespaces :
          /\ C20_Exact(ns)
          /\ C20_NoForeign(ns, {B \in Namespaces : Prefix(B) # Prefix(ns)})
          /\ C20_Empty(ns)]_vars

\* C20 for namespaces without pattern characters: A.del(...(await
\* A.scanAll(P))) deletes exactly the keys of A that matched P and no key
\* written through a wrapper B such that neither prefix is an initial part
\* of the other, and with no concurrent writer a following A.scanAll(P)
\* returns an empty list.
Thm_C20 ==
    [][\A ns \in {N \in Namespaces : ~HasGlob(N)} :
          /\ C20_Exact(ns)
          /\ C20_NoForeign(ns, {B \in Namespaces :
                                  ~Comparable(Prefix(B), Prefix(ns))})
          /\ C20_Empty(ns)]_vars

\* the del of the two keys that scanAll("*") through "a" returned removed
\* both and left the key of "a*"; the scan that follows it is under way and
\* has found nothing
Wit_C20 ==
    /\ ret.op = "del" /\ ret.ns = NsA /\ ~ret.err
    /\ "scanned" \in DOMAIN ret
    /\ ret.scanned = <<"*">> /\ ret.clean
    /\ ret.val = 2
    /\ <<"a", "*", ":", "k">> \in DOMAIN store
    /\ call.kind = "scanAll" /\ call.ns = NsA /\ call.arg = <<"*">>
    /\ call.cursor = NumSlots - 1 /\ call.out = <<>> /\ ~call.touched

(***************************************************************************)
(* C21  transaction is one atomic block.                                   *)
(***************************************************************************)
\* C21: RedisWrapper.transaction(commands) executes the given commands as
\* one atomic transaction: the block the store executes at EXEC is exactly
\* the commands of this call, in array order, and no command another caller
\* issued on the shared connection is captured into the block or
\* interleaved with it.
Orig_C21 ==
    /\ (ret.op = "transaction" /\ ~ret.err) => ret.sent = Parsed(ret.key)
    /\ \A i \in 1..Len(multi.queue) : multi.queue[i].by = DIRECT

(***************************************************************************)
(* C22  A transaction that fails while queuing.                            *)
(***************************************************************************)
\* C22: if a command fails while transaction is queuing commands after
\* MULTI, the transaction is discarded: none of the commands queued by the
\* call take effect and the connection is not left in MULTI state for later
\* commands.
Orig_C22 ==
    (ret.op = "transaction" /\ ret.err /\ ret.phase = "queue" /\ connOpen)
        => (~multi.on /\ multi.queue = <<>>)

(***************************************************************************)
(* C23  scanAll is an all-or-nothing cursor loop.                          *)
(***************************************************************************)
\* a scanAll starts with cursor "0" and nothing accumulated
C23_First ==
    (call.kind = "none" /\ call'.kind = "scanAll")
        => (call'.cursor = 0 /\ call'.out = <<>>)

\* the step of a running scanAll in which the reply of its SCAN arrives:
\* the call ends or moves to another cursor
C23_Reply ==
    /\ call.kind = "scanAll"
    /\ (call'.kind = "none" \/ call'.cursor # call.cursor)

\* between two replies the cursor and the accumulated keys stay as they are
C23_Kept ==
    (call.kind = "scanAll" /\ call'.kind = "scanAll"
        /\ call'.cursor = call.cursor) => call'.out = call.out

\* a round whose SCAN was answered: with a cursor other than "0" the loop
\* goes on with exactly that cursor and reports nothing; with cursor "0" it
\* returns the keys of every round, stripped only then
C23_Round ==
    (C23_Reply /\ Usable)
        => LET res == ScanPage(store, call.cursor, call.pattern)
               out == call.out \o res.keys
           IN IF res.cursor # 0
              THEN /\ call'.kind = "scanAll"
                   /\ call'.cursor = res.cursor
                   /\ call'.out = out
                   /\ UNCHANGED ret
              ELSE /\ call' = NoCall
                   /\ ret'.op = "scanAll" /\ ~ret'.err
                   /\ ret'.raw = out
                   /\ ret'.val = StripAll(Prefix(call.ns), out)

\* a scanAll that is still running has reported nothing
C23_NoPartial ==
    (call.kind = "scanAll" /\ call'.kind = "scanAll" /\ ret'.op = "scanAll")
        => UNCHANGED ret

\* C23: scanAll issues its first scan with cursor "0", re-issues the scan
\* with exactly the cursor the store returned, accumulates the keys of every
\* round, and returns (the accumulated keys, only then stripped of the
\* prefix) if and only if a round returns cursor "0"; it terminates whenever
\* the store eventually returns cursor "0", and never exposes a partial
\* result
Thm_C23 ==
    /\ [][C23_First /\ C23_Kept /\ C23_Round /\ C23_NoPartial]_vars
    /\ (call.kind = "scanAll") ~> (call.kind = "none")

\* a scanAll returned keys that only its second round found
Wit_C23 ==
    /\ ret.op = "scanAll" /\ ~ret.err
    /\ ret.val # <<>>
    /\ \A i \in 1..Len(ret.raw) : Slot(ret.raw[i]) # 0

(***************************************************************************)
(* C24  A failed round fails the whole scanAll.                            *)
(***************************************************************************)
\* the step in which a running scanAll or clearNamespace gets the reply of
\* a SCAN that the connection rejected
C24_FailedRound ==
    /\ call.kind \in {"scanAll", "clear"}
    /\ call.pc = "scan"
    /\ ~Usable
    /\ call' # call

\* C24: if any round of scanAll fails, scanAll fails with that round's
\* error, issues no further round and returns none of the keys accumulated
\* so far; for clearNamespace a failed scan means that no delete is issued
Thm_C24 ==
    [][C24_FailedRound =>
        /\ call' = NoCall
        /\ ret'.op = (IF call.kind = "clear" THEN "clearNamespace"
                                              ELSE "scanAll")
        /\ ret'.ns = call.ns
        /\ ret'.err /\ ret'.val = Rejection
        /\ ret'.raw = <<>>
        /\ ret'.dels = 0
        /\ store' = store]_vars

\* the second round of a scanAll was rejected after the first had found a
\* key, and the call failed with the rejection
Wit_C24 ==
    /\ ret.op = "scanAll" /\ ret.err
    /\ ret.before > 0
    /\ ret.val = CLOSED
    /\ ret.raw = <<>>

(***************************************************************************)
(* C25  The race between the scan and the delete is benign.                *)
(***************************************************************************)
\* the step in which the store answers the DEL of a clearNamespace
C25_DelAnswered ==
    /\ call.kind = "clear"
    /\ call.pc = "del"
    /\ call' = NoCall
    /\ Usable

\* C25: when another actor deletes or lets expire some or all of the
\* scanned keys between clearNamespace's scan and its delete, clearNamespace
\* completes without error and returns the number of keys its delete
\* actually removed, which may be smaller than the number scanned, down to 0
Thm_C25 ==
    [][C25_DelAnswered =>
        /\ ret'.op = "clearNamespace"
        /\ ~ret'.err
        /\ ret'.val = Cardinality(DOMAIN store) - Cardinality(DOMAIN store')
        /\ ret'.val \in 0..Len(call.out)]_vars

\* clearNamespace scanned a key that was gone when its DEL arrived, and
\* returned 0
Wit_C25 ==
    /\ ret.op = "clearNamespace" /\ ~ret.err
    /\ ret.dels = 1
    /\ ret.raw # <<>>
    /\ ret.val = 0

(***************************************************************************)
(* C28  clearNamespace deletes what its own scan returned.                 *)
(***************************************************************************)
\* while clearNamespace waits for its DEL, the keys it scanned stay as they
\* are and no further scan is made
C28_Fixed ==
    (call.kind = "clear" /\ call.pc = "del" /\ call'.kind = "clear")
        => (call'.out = call.out /\ call'.pc = "del")

\* the one DEL of a clearNamespace: its arguments are the scanned keys, it
\* ends the call, and every key that was not scanned is left as it is
C28_Del ==
    (call.kind = "clear" /\ call.pc = "del" /\ call' = NoCall)
        => /\ ret'.op = "clearNamespace"
           /\ ret'.dels = 1
           /\ ret'.sent = call.out
           /\ ret'.raw = call.out
           /\ \A pk \in DOMAIN store \ Range(call.out) :
                 pk \in DOMAIN store' /\ store'[pk] = store[pk]

\* a clearNamespace whose scan found nothing sends no DEL
C28_NoDel ==
    (call.kind = "clear" /\ call.pc = "scan" /\ call' = NoCall)
        => (ret'.dels = 0 /\ store' = store)

\* C28: clearNamespace issues at most one delete call, whose arguments are
\* exactly the physical keys returned by its own scan, all of them and
\* unmodified; it never deletes a key that its scan did not return, so a key
\* written under the namespace after the scan completed survives
Thm_C28 == [][C28_Fixed /\ C28_Del /\ C28_NoDel]_vars

\* clearNamespace removed a key, and a key of the namespace that was
\* written while it ran and that its scan did not return is still there
Wit_C28 ==
    /\ ret.op = "clearNamespace" /\ ~ret.err
    /\ ret.dels = 1 /\ ret.val > 0
    /\ ret.touched
    /\ \E pk \in DOMAIN store :
          StartsWith(pk, Prefix(ret.ns)) /\ pk \notin Range(ret.raw)

(***************************************************************************)
(* C26  Concurrent increments of one counter.                              *)
(***************************************************************************)
\* the counter of the logical key "k" in a namespace; 0 while it is absent
Counter(st, ns) ==
    IF Prefix(ns) \o KeyK \in DOMAIN st THEN st[Prefix(ns) \o KeyK].v.n
    ELSE 0

\* C26: under any interleaving of n incr calls through wrappers of the same
\* namespace on the same initially absent logical key, the returned values
\* are exactly 1..n, each once, and the final value is n: every incr
\* returns one more than the number of incr calls of its namespace before
\* it and leaves that number as the value; operations through a wrapper of
\* a different namespace on the same logical key neither change these
\* values nor are changed by them
Thm_C26 ==
    [][ret'.op = "incr" =>
        /\ ~ret'.err
        /\ ret'.val = Counter(store, ret'.ns) + 1
        /\ Counter(store', ret'.ns) = ret'.val
        /\ \A other \in Namespaces \ {ret'.ns} :
              Counter(store', other) = Counter(store, other)]_vars

\* the third incr through "a" returned 3 while the counter of "a:b" stands
\* at 1 and that of "a*" at 2
Wit_C26 ==
    /\ ret.op = "incr" /\ ret.ns = NsA /\ ret.val = 3
    /\ Counter(store, NsA) = 3
    /\ Counter(store, NsAB) = 1
    /\ Counter(store, NsGlob) = 2

(***************************************************************************)
(* C27  The wrapper is a stateless forwarder.                              *)
(***************************************************************************)
\* the step is a write of the other process, not a step of a wrapper
C27_Behind ==
    /\ Phys(NsA, KeyK) \in DOMAIN store'
    /\ store'[Phys(NsA, KeyK)].by = DIRECT
    /\ IF Phys(NsA, KeyK) \in DOMAIN store
       THEN store'[Phys(NsA, KeyK)] # store[Phys(NsA, KeyK)]
       ELSE TRUE

\* constructing a wrapper sends nothing and changes neither the store nor
\* the connection
C27_Construct ==
    (ret'.op = "createNamespacedRedis")
        => /\ ret'.sent = <<>>
           /\ UNCHANGED <<store, connOpen, subs, multi, call>>

\* an operation of the wrapper of ns is one command on the shared
\* connection, with the physical key as its argument, answered from the
\* store as it is at that moment and applied to it at once
C27_One(ns) ==
    /\ Did("incr", ns) =>
          /\ ret'.sent = <<Phys(ns, KeyK)>>
          /\ Same(RIncrBy(store, Phys(ns, KeyK), 1, ns, KeyK))
    /\ Did("get", ns) =>
          /\ ret'.sent = <<Phys(ns, KeyK)>>
          /\ Same(RGet(store, Phys(ns, KeyK)))
    /\ Did("set", ns) =>
          /\ ret'.sent = <<Phys(ns, KeyK)>>
          /\ \E v \in Payloads :
                Same(redis_set(store, Phys(ns, KeyK), JsString(Text(v)),
                               NoOpts, ns, KeyK))

Thm_C29 == ret.op = "release" => (~ret.err /\ ret.val = NULL)

\* the release function of a released subscription was invoked again, its
\* unsubscribe was rejected by the closed connection, and it completed
\* normally; the release of the other subscription had failed before
Wit_C29 ==
    /\ ret.op = "release" /\ ~ret.err
    /\ ret.again /\ ret.thrown /\ ~ret.unsub
    /\ \E i \in 1..Len(subs) :
          /\ subs[i].pchan = ret.sent[1]
          /\ subs[i].st = "released" /\ ~subs[i].open
    /\ \E j \in 1..Len(subs) : subs[j].done /\ subs[j].open

(***************************************************************************)
(* C30  What the subscriber callback receives.                             *)
(***************************************************************************)
\* C30: the subscriber callback is handed to the shared connection
\* unmodified, so for every delivered message its first argument is the
\* published payload, unchanged, and its second argument is the physical
\* channel name, prefix + C of the subscription, not the logical C
Thm_C30 ==
    \A i \in 1..Len(subs) :
        /\ subs[i].got =
              {[message |-> msg.m, channel |-> Prefix(msg.by) \o msg.chan] :
                  msg \in subs[i].inbox}
        /\ \A args \in subs[i].got :
              /\ args.message \in Payloads
              /\ args.channel = Prefix(subs[i].ns) \o subs[i].chan
              /\ args.channel # subs[i].chan

\* the callback of the subscriber of "k" in "a:b" was called with the
\* payload 1 and the channel "a:b:k" for a message published to "b:k"
\* through "a"
Wit_C30 ==
    \E i \in 1..Len(subs) :
        /\ subs[i].ns = NsAB /\ subs[i].chan = KeyK
        /\ [message |-> 1, channel |-> PhysABK] \in subs[i].got
        /\ \E msg \in subs[i].inbox : msg.by = NsA /\ msg.chan = KeyBK

=============================================================================
